---- MODULE Spec2Model ----
(***************************************************************************)
(* A model of the antibody structure search pipeline: the structure        *)
(* decoder and quality validator (pdb.rs), the conformational analysis and *)
(* similarity metrics (analysis.rs), the storage table (db.rs), ingestion  *)
(* (download.rs), the processing orchestrator (process.rs) and the ranking *)
(* engine (match_ab.rs).                                                   *)
(*                                                                         *)
(* Numbers.  f64 values are rendered in fixed point: lengths, rmsd and     *)
(* similarity scores in units of 1/Scale, angles in units of 1/Scale       *)
(* radian.  A coordinate is an integer (angstrom) or NaN, which the parse  *)
(* of a coordinate field yields for the text "NaN"; NaN propagates through *)
(* the arithmetic and every comparison with it is false.  A comparison of  *)
(* a distance with a threshold is made on the squares, which is exact.     *)
(* pdb_id strings are rendered as the naturals 1..MaxIds, whose order      *)
(* stands for the lexicographic order of the strings.                      *)
(***************************************************************************)
EXTENDS Integers, Sequences, FiniteSets, TLC

\* ------------------------------------------------------------------ bounds
MaxIds == 4
MaxTopN == 3
MaxRawRows == 1
MaxRes == 2
MaxMissing == 6
MaxGaps == 2
MaxChainRes == 3
MaxAtoms == 2
MaxAngles == 2
MaxSeqLen == 4
MaxLines == 2
MaxSeqAtoms == 3
MaxCands == 3

\* ------------------------------------------------------- program constants
Scale == 100
PI == 314
WindowCap == 50
MinLineLen == 54
MaxMissingBackbone == 5
FetchAttempts == 3
\* f64::INFINITY, the "incomparable" result of rmsd
Infinity == -1
\* f64::NAN: what str::parse::<f64> yields for the field text "NaN"
NaN == -1000000
\* the gap penalties of align
gap_open == -11
gap_extend == -1

\* ------------------------------------------------------------- arithmetic
Min(a, b) == IF a <= b THEN a ELSE b

Abs(a) == IF a < 0 THEN -a ELSE a

RECURSIVE IsqrtBetween(_, _, _)
IsqrtBetween(x, lo, hi) ==
    IF lo >= hi THEN lo
    ELSE LET mid == (lo + hi + 1) \div 2
         IN  IF mid * mid <= x THEN IsqrtBetween(x, mid, hi)
                               ELSE IsqrtBetween(x, lo, mid - 1)

\* f64::sqrt on a non-negative value, rounded down to an integer
Isqrt(x) == IsqrtBetween(x, 0, 46340)

RECURSIVE SumSeq(_)
SumSeq(s) == IF s = <<>> THEN 0 ELSE Head(s) + SumSeq(Tail(s))

SeqRange(s) == {s[k] : k \in 1..Len(s)}

RECURSIVE SumOver(_, _)
\* the sum of f[c] over the elements c of the finite set S
SumOver(S, f) ==
    IF S = {} THEN 0
    ELSE LET c == CHOOSE e \in S : TRUE IN f[c] + SumOver(S \ {c}, f)

\* -------------------------------------------------------- geometry kernel
\* a point with a NaN coordinate
IsNaNPoint(p) == NaN \in {p[1], p[2], p[3]}

\* Point::distance, squared; NaN when a coordinate of either point is NaN
DistSq(p, q) ==
    IF IsNaNPoint(p) \/ IsNaNPoint(q) THEN NaN
    ELSE (p[1] - q[1]) * (p[1] - q[1]) + (p[2] - q[2]) * (p[2] - q[2])
           + (p[3] - q[3]) * (p[3] - q[3])

PointSub(p, q) == <<p[1] - q[1], p[2] - q[2], p[3] - q[3]>>

Dot(p, q) == p[1] * q[1] + p[2] * q[2] + p[3] * q[3]

Cross(p, q) ==
    <<p[2] * q[3] - p[3] * q[2], p[3] * q[1] - p[1] * q[3], p[1] * q[2] - p[2] * q[1]>>

\* integer division rounding toward zero, as a rendering of f64 division
DivT(a, b) == IF a >= 0 THEN a \div b ELSE -((-a) \div b)

\* Point::normalize: the unit vector in units of 1/Scale; the zero vector unchanged
Normalize(p) ==
    LET n2 == Dot(p, p)
    IN  IF n2 = 0 THEN p
        ELSE LET n == Isqrt(n2 * Scale * Scale)
             IN  <<DivT(p[1] * Scale * Scale, n), DivT(p[2] * Scale * Scale, n),
                   DivT(p[3] * Scale * Scale, n)>>

\* ------------------------------------------------------ structure decoder
\* A line of a structure file: its keyword, its length, whether the required
\* numeric fields (serial, residue sequence number, x, y, z) parse, and the
\* field values.
AtomOf(nm, rn, ch, rs, ic, x, y, z) ==
    [name |-> nm, res_name |-> rn, chain_id |-> ch, res_seq |-> rs, i_code |-> ic,
     pos |-> <<x, y, z>>]

Line(kw, len, ok, a) == [kw |-> kw, len |-> len, ok |-> ok, atom |-> a]

AtomLine(nm, rn, ch, rs, ic, x, y, z) ==
    Line("ATOM", 80, TRUE, AtomOf(nm, rn, ch, rs, ic, x, y, z))

\* Atom::from_line: does the line yield an Atom
FromLineOk(l) ==
    /\ l.kw \in {"ATOM", "HETATM"}
    /\ l.len >= MinLineLen
    /\ l.ok

\* Pdb::from_str: the atoms of the lines that decode, in file order
RECURSIVE FromStr(_)
FromStr(lines) ==
    IF lines = <<>> THEN <<>>
    ELSE IF FromLineOk(Head(lines)) THEN <<Head(lines).atom>> \o FromStr(Tail(lines))
         ELSE FromStr(Tail(lines))

three_to_one(res) ==
    CASE res = "ALA" -> "A" [] res = "CYS" -> "C" [] res = "ASP" -> "D"
      [] res = "GLU" -> "E" [] res = "PHE" -> "F" [] res = "GLY" -> "G"
      [] res = "HIS" -> "H" [] res = "ILE" -> "I" [] res = "LYS" -> "K"
      [] res = "LEU" -> "L" [] res = "MET" -> "M" [] res = "ASN" -> "N"
      [] res = "PRO" -> "P" [] res = "GLN" -> "Q" [] res = "ARG" -> "R"
      [] res = "SER" -> "S" [] res = "THR" -> "T" [] res = "VAL" -> "V"
      [] res = "TRP" -> "W" [] res = "TYR" -> "Y"
      [] OTHER -> "X"

\* mutant: the insertion code is not part of the key
ResKeySeqOnly(a) == <<a.res_seq, " ">>

ResKey(a) == <<a.res_seq, a.i_code>>

RECURSIVE SeqFrom(_, _)
\* the loop of Pdb::get_sequence over the chain's atoms, with the keys seen so far
SeqFrom(atoms, seen) ==
    IF atoms = <<>> THEN <<>>
    ELSE LET a == Head(atoms)
         IN  IF ResKey(a) \in seen THEN SeqFrom(Tail(atoms), seen)
             ELSE <<three_to_one(a.res_name)>> \o SeqFrom(Tail(atoms), seen \cup {ResKey(a)})

\* Pdb::get_sequence
get_sequence(atoms, chain_id) ==
    SeqFrom(SelectSeq(atoms, LAMBDA a : a.chain_id = chain_id), {})

\* ------------------------------------------------------ quality validator
RECURSIVE GroupRuns(_, _, _, _)
\* contiguous-key change detection: residues so far, the current run, the last key
GroupRuns(atoms, residues, curr, last_key) ==
    IF atoms = <<>>
    THEN IF curr # <<>> THEN Append(residues, curr) ELSE residues
    ELSE LET a == Head(atoms)
             key == ResKey(a)
         IN  IF key # last_key
             THEN GroupRuns(Tail(atoms),
                            IF curr # <<>> THEN Append(residues, curr) ELSE residues,
                            <<a>>, key)
             ELSE GroupRuns(Tail(atoms), residues, Append(curr, a), last_key)

\* the residues of one chain in Pdb::validate
ValidateResidues(atoms) == GroupRuns(atoms, <<>>, <<>>, <<-999, " ">>)

HasAtom(res, nm) == \E k \in 1..Len(res) : res[k].name = nm

\* iter().find(|a| a.name == nm): the first atom of that name (HasAtom holds)
FindAtom(res, nm) ==
    res[CHOOSE k \in 1..Len(res) :
          /\ res[k].name = nm
          /\ \A j \in 1..(k - 1) : res[j].name # nm]

\* mutant: every missing backbone atom is counted
MissingBackbonePerAtom(residues) ==
    SumSeq([k \in 1..Len(residues) |->
        Cardinality({nm \in {"N", "CA", "C"} : ~HasAtom(residues[k], nm)})])

\* the residues that lack N, CA or C
MissingBackbone(residues) ==
    Cardinality({k \in 1..Len(residues) :
        ~HasAtom(residues[k], "N") \/ ~HasAtom(residues[k], "CA")
          \/ ~HasAtom(residues[k], "C")})

\* the pair (i, i+1) has a C in residue i and an N in residue i+1
BondPair(residues, i) == HasAtom(residues[i], "C") /\ HasAtom(residues[i + 1], "N")

\* dist > 2.5, on the squares; false for a NaN distance
GeomGapAt(residues, i) ==
    LET d2 == DistSq(FindAtom(residues[i], "C").pos, FindAtom(residues[i + 1], "N").pos)
    IN  d2 # NaN /\ 4 * d2 > 25

\* mutant: a difference of 1 is a gap already
NumberingGapAtFromOne(residues, i) ==
    /\ BondPair(residues, i)
    /\ residues[i + 1][1].res_seq - residues[i][1].res_seq >= 1

\* the numbering-gap test of the pair (i, i+1): made only inside the
\* if-let on (C, N), on the signed difference of the first atoms' res_seq
NumberingGapAt(residues, i) ==
    /\ BondPair(residues, i)
    /\ residues[i + 1][1].res_seq - residues[i][1].res_seq > 1

NumberingGaps(residues) ==
    Cardinality({i \in 1..(Len(residues) - 1) : NumberingGapAt(residues, i)})

GeometricGaps(residues) ==
    Cardinality({i \in 1..(Len(residues) - 1) :
        BondPair(residues, i) /\ GeomGapAt(residues, i)})

ChainIds(atoms) == {atoms[k].chain_id : k \in 1..Len(atoms)}

ChainAtoms(atoms, c) == SelectSeq(atoms, LAMBDA a : a.chain_id = c)

\* Pdb::validate
validate(atoms) ==
    LET R == [c \in ChainIds(atoms) |-> ValidateResidues(ChainAtoms(atoms, c))]
    IN  [missing_backbone_residues |->
            SumOver(ChainIds(atoms), [c \in ChainIds(atoms) |-> MissingBackbone(R[c])]),
         numbering_gaps |->
            SumOver(ChainIds(atoms), [c \in ChainIds(atoms) |-> NumberingGaps(R[c])]),
         geometric_gaps |->
            SumOver(ChainIds(atoms), [c \in ChainIds(atoms) |-> GeometricGaps(R[c])])]

\* mutant: a numbering gap fails the report too
is_passNoNumberingGaps(report) ==
    /\ report.geometric_gaps = 0
    /\ report.missing_backbone_residues < MaxMissingBackbone
    /\ report.numbering_gaps = 0

\* QualityReport::is_pass
is_pass(report) ==
    report.geometric_gaps = 0 /\ report.missing_backbone_residues < MaxMissingBackbone

\* ------------------------------------------------ conformational analysis
\* atan of t/1000 for 0 <= t <= 1000, in units of 1/1000 radian
AtanUnit(t) == (t * 785 + (273 * t * (1000 - t)) \div 1000) \div 1000

\* An f64 with its sign bit, which tells -0.0 from +0.0: <<value, sign>>.
Signed(v) == <<v, v < 0>>

SignedPoint(p) == <<Signed(p[1]), Signed(p[2]), Signed(p[3])>>

\* a * b: the sign bits are xor-ed
SMul(a, b) == <<a[1] * b[1], a[2] # b[2]>>

\* a - b: a zero difference is -0.0 only for (-0.0) - (+0.0)
SSub(a, b) ==
    LET v == a[1] - b[1] IN <<v, IF v = 0 THEN a[2] /\ ~b[2] ELSE v < 0>>

\* a + b: a zero sum is -0.0 only for (-0.0) + (-0.0)
SAdd(a, b) ==
    LET v == a[1] + b[1] IN <<v, IF v = 0 THEN a[2] /\ b[2] ELSE v < 0>>

\* Point::sub, Point::cross, Point::dot and Point::normalize with sign bits
SPointSub(p, q) == <<SSub(p[1], q[1]), SSub(p[2], q[2]), SSub(p[3], q[3])>>

SCross(p, q) ==
    <<SSub(SMul(p[2], q[3]), SMul(p[3], q[2])),
      SSub(SMul(p[3], q[1]), SMul(p[1], q[3])),
      SSub(SMul(p[1], q[2]), SMul(p[2], q[1]))>>

SDot(p, q) == SAdd(SAdd(SMul(p[1], q[1]), SMul(p[2], q[2])), SMul(p[3], q[3]))

SNormalize(p) ==
    LET n2 == p[1][1] * p[1][1] + p[2][1] * p[2][1] + p[3][1] * p[3][1]
    IN  IF n2 = 0 THEN p
        ELSE LET n == Isqrt(n2 * Scale * Scale)
             IN  [i \in 1..3 |-> <<DivT(p[i][1] * Scale * Scale, n), p[i][2]>>]

\* f64::atan2(y, x) of two signed values, in units of 1/Scale radian, in
\* [-PI, PI]: for a zero y it is (+/-)0 when x is positive or +0.0 and
\* (+/-)PI when x is negative or -0.0, with the sign of y
Atan2(y, x) ==
    IF y[1] = 0
    THEN IF x[2] THEN (IF y[2] THEN -PI ELSE PI) ELSE 0
    ELSE LET ax == Abs(x[1])
             ay == Abs(y[1])
             lo == Min(ax, ay)
             hi == IF ax >= ay THEN ax ELSE ay
             a0 == (AtanUnit((lo * 1000) \div hi) * Scale) \div 1000
             a1 == IF ay > ax THEN PI \div 2 - a0 ELSE a0
             a2 == IF x[1] < 0 THEN PI - a1 ELSE a1
         IN  IF y[1] < 0 THEN -a2 ELSE a2

\* torsion_angle; a NaN coordinate of any point makes n1 or n2, and so x, NaN
torsion_angle(p1, p2, p3, p4) ==
    IF \E p \in {p1, p2, p3, p4} : IsNaNPoint(p) THEN NaN ELSE
    LET b1 == SPointSub(SignedPoint(p2), SignedPoint(p1))
        b2 == SPointSub(SignedPoint(p3), SignedPoint(p2))
        b3 == SPointSub(SignedPoint(p4), SignedPoint(p3))
        n1 == SNormalize(SCross(b1, b2))
        n2 == SNormalize(SCross(b2, b3))
        m1 == SCross(n1, SNormalize(b2))
        x == SMul(SDot(n1, n2), Signed(Scale))
        y == SDot(m1, n2)
    IN  -Atan2(y, x)

RECURSIVE GroupBySeq(_, _, _, _)
\* the grouping loop of ramachandran: a new residue whenever res_seq changes
GroupBySeq(atoms, residues, current_res, last_seq) ==
    IF atoms = <<>>
    THEN IF current_res # <<>> THEN Append(residues, current_res) ELSE residues
    ELSE LET a == Head(atoms)
         IN  IF a.res_seq # last_seq
             THEN GroupBySeq(Tail(atoms),
                             IF current_res # <<>> THEN Append(residues, current_res)
                                                   ELSE residues,
                             <<a>>, a.res_seq)
             ELSE GroupBySeq(Tail(atoms), residues, Append(current_res, a), last_seq)

RamaResidues(atoms) == GroupBySeq(atoms, <<>>, <<>>, -999)

\* residue i (1-based, internal) has C(i-1), N/CA/C(i) and N(i+1)
RamaQualifies(residues, i) ==
    /\ HasAtom(residues[i - 1], "C")
    /\ HasAtom(residues[i], "N")
    /\ HasAtom(residues[i], "CA")
    /\ HasAtom(residues[i], "C")
    /\ HasAtom(residues[i + 1], "N")

RamaAngles(residues, i) ==
    LET cp == FindAtom(residues[i - 1], "C").pos
        n == FindAtom(residues[i], "N").pos
        ca == FindAtom(residues[i], "CA").pos
        c == FindAtom(residues[i], "C").pos
        nn == FindAtom(residues[i + 1], "N").pos
    IN  <<torsion_angle(cp, n, ca, c), torsion_angle(n, ca, c, nn)>>

RECURSIVE RamaFromStopAtSkip(_, _)
\* mutant: the loop ends at the first residue that lacks an atom
RamaFromStopAtSkip(residues, i) ==
    IF i > Len(residues) - 1 \/ ~RamaQualifies(residues, i) THEN <<>>
    ELSE <<RamaAngles(residues, i)>> \o RamaFromStopAtSkip(residues, i + 1)

RECURSIVE RamaFrom(_, _)
\* the loop over the internal residues i, i + 1, ...: an entry for each that
\* has the five atoms
RamaFrom(residues, i) ==
    IF i > Len(residues) - 1 THEN <<>>
    ELSE (IF RamaQualifies(residues, i) THEN <<RamaAngles(residues, i)>> ELSE <<>>)
           \o RamaFrom(residues, i + 1)

\* ramachandran: the (phi, psi) list of a structure
ramachandran(atoms) == RamaFrom(RamaResidues(atoms), 2)

\* the periodic distance of two angles; NaN when either is NaN
AngleDist(a, b) ==
    IF a = NaN \/ b = NaN THEN NaN
    ELSE LET d == Abs(a - b) IN IF d > PI THEN 2 * PI - d ELSE d

\* mutant: the mean is taken over the longer length
ramachandran_scoreMeanOverLonger(target, candidate) ==
    IF target = <<>> \/ candidate = <<>> THEN 0
    ELSE LET len == Min(Len(target), Len(candidate))
             longer == IF Len(target) >= Len(candidate) THEN Len(target)
                       ELSE Len(candidate)
             d_phi == [i \in 1..len |-> AngleDist(target[i][1], candidate[i][1])]
             d_psi == [i \in 1..len |-> AngleDist(target[i][2], candidate[i][2])]
         IN  IF NaN \in SeqRange(d_phi) \cup SeqRange(d_psi) THEN NaN
             ELSE LET sum_sq == SumSeq([i \in 1..len |->
                                   d_phi[i] * d_phi[i] + d_psi[i] * d_psi[i]])
                      mse == sum_sq \div longer
                  IN  (Scale * Scale * Scale) \div (Scale * Scale + mse)

\* ramachandran_score, in units of 1/Scale; NaN when a compared angle is NaN
ramachandran_score(target, candidate) ==
    IF target = <<>> \/ candidate = <<>> THEN 0
    ELSE LET len == Min(Len(target), Len(candidate))
             d_phi == [i \in 1..len |-> AngleDist(target[i][1], candidate[i][1])]
             d_psi == [i \in 1..len |-> AngleDist(target[i][2], candidate[i][2])]
         IN  IF NaN \in SeqRange(d_phi) \cup SeqRange(d_psi) THEN NaN
             ELSE LET sum_sq == SumSeq([i \in 1..len |->
                                   d_phi[i] * d_phi[i] + d_psi[i] * d_psi[i]])
                      mse == sum_sq \div len
                  IN  (Scale * Scale * Scale) \div (Scale * Scale + mse)

\* rmsd, in units of 1/Scale; Infinity when the lengths differ or a list is
\* empty, NaN when a distance is NaN
rmsd(atoms1, atoms2) ==
    IF Len(atoms1) # Len(atoms2) \/ atoms1 = <<>> THEN Infinity
    ELSE LET d2 == [i \in 1..Len(atoms1) |-> DistSq(atoms1[i].pos, atoms2[i].pos)]
         IN  IF NaN \in SeqRange(d2) THEN NaN
             ELSE Isqrt((SumSeq(d2) * Scale * Scale) \div Len(atoms1))

\* 1.0 / (1.0 + r), in units of 1/Scale
Similarity(r) ==
    IF r = NaN THEN NaN
    ELSE IF r = Infinity THEN 0 ELSE (Scale * Scale) \div (Scale + r)

\* mutant: a mismatch costs nothing
match_scoreFreeMismatch(c1, c2) == IF c1 = c2 THEN 4 ELSE 0

\* the match_score closure of align
match_score(c1, c2) == IF c1 = c2 THEN 4 ELSE -1

Max(a, b) == IF a >= b THEN a ELSE b

RECURSIVE DpCell(_, _, _, _)
\* dp[i][j] of align: row 0 and column 0 are initialised to
\* gap_open + (k - 1) * gap_extend, every other cell is the maximum of the
\* three moves, a delete or insert adding gap_extend
DpCell(s1, s2, i, j) ==
    IF i = 0 /\ j = 0 THEN 0
    ELSE IF j = 0 THEN gap_open + (i - 1) * gap_extend
    ELSE IF i = 0 THEN gap_open + (j - 1) * gap_extend
    ELSE LET match_val == DpCell(s1, s2, i - 1, j - 1) + match_score(s1[i], s2[j])
             delete == DpCell(s1, s2, i - 1, j) + gap_extend
             insert == DpCell(s1, s2, i, j - 1) + gap_extend
         IN  Max(Max(match_val, delete), insert)

\* align: dp[n][m]
align(s1, s2) == DpCell(s1, s2, Len(s1), Len(s2))

\* --------------------------------------------------- the remote structures
\* The structure files the model draws from.  Residue r of a chain sits at
\* x = 3r: N (3r,0,0), CA (3r+1,1,0), C (3r+2,0,cz).
Residue(ch, rs, ic, rn, r, cz) ==
    <<AtomLine("N", rn, ch, rs, ic, 3 * r, 0, 0),
      AtomLine("CA", rn, ch, rs, ic, 3 * r + 1, 1, 0),
      AtomLine("C", rn, ch, rs, ic, 3 * r + 2, 0, cz)>>

JunkLines ==
    <<Line("REMARK", 80, TRUE, AtomOf("N", "ALA", "H", 1, " ", 0, 0, 0)),
      Line("ATOM", 30, TRUE, AtomOf("N", "ALA", "H", 1, " ", 0, 0, 0)),
      Line("ATOM", 80, FALSE, AtomOf("N", "ALA", "H", 1, " ", 0, 0, 0))>>

\* a heavy and a light chain of three residues each, complete and continuous
FabLines(rnH, rnL) ==
    Residue("H", 1, " ", rnH, 0, 1) \o Residue("H", 2, " ", "GLY", 1, 0)
      \o Residue("H", 3, " ", "SER", 2, 1)
      \o Residue("L", 1, " ", rnL, 4, 0) \o Residue("L", 2, " ", "TRP", 5, 1)
      \o Residue("L", 3, " ", "UNK", 6, 0)

\* one chain "A" of three residues with eighteen atoms each (54 atoms)
LongAtomLine(k, dz) ==
    LET r == (k - 1) \div 18
        j == (k - 1) % 18
    IN  IF j = 0 THEN AtomLine("N", "LYS", "A", r + 1, " ", 3 * r, 0, 0)
        ELSE IF j = 1 THEN AtomLine("CA", "LYS", "A", r + 1, " ", 3 * r + 1, 1, 0)
        ELSE IF j = 2 THEN AtomLine("C", "LYS", "A", r + 1, " ", 3 * r + 2, 0, 1)
        ELSE AtomLine("CB", "LYS", "A", r + 1, " ", 3 * r + 1, 1 + (j % 3), dz)

LongLines(n, dzTail) ==
    [k \in 1..n |-> LongAtomLine(k, IF k > WindowCap THEN dzTail ELSE 1)]

\* a heavy chain broken between residues 2 and 3 (C to N distance 4), and a
\* light chain
BrokenLines ==
    Residue("H", 1, " ", "ALA", 0, 0) \o Residue("H", 2, " ", "GLY", 1, 0)
      \o Residue("H", 3, " ", "SER", 3, 0) \o Residue("L", 1, " ", "ASP", 5, 0)

\* the heavy and light chain of FabLines, the x field of the first CA atom
\* reading "NaN"
NanLines ==
    [FabLines("ALA", "ASP") EXCEPT ![2] =
        AtomLine("CA", "ALA", "H", 1, " ", NaN, 1, 0)]

\* fetch_pdb: the file the remote archive serves for a structure id
RemoteFile(id) ==
    CASE id % 6 = 1 -> JunkLines \o FabLines("ALA", "ASP")
      [] id % 6 = 2 -> LongLines(54, 1)
      [] id % 6 = 3 -> FabLines("VAL", "GLU")
      [] id % 6 = 4 -> BrokenLines
      [] id % 6 = 5 -> NanLines
      [] OTHER -> JunkLines

\* the filtered records of the summary file for a structure id
SummaryRecord(id) ==
    CASE id % 6 = 1 -> [pdb |-> id, h_chain |-> <<"H">>, l_chain |-> <<"L">>,
                        method |-> "X-RAY DIFFRACTION"]
      [] id % 6 = 2 -> [pdb |-> id, h_chain |-> <<>>, l_chain |-> <<>>,
                        method |-> "ELECTRON MICROSCOPY"]
      [] id % 6 = 3 -> [pdb |-> id, h_chain |-> <<"H", ",", "I">>, l_chain |-> <<"K">>,
                        method |-> "X-RAY DIFFRACTION"]
      [] OTHER -> [pdb |-> id, h_chain |-> <<"H">>, l_chain |-> <<"L">>,
                   method |-> "X-RAY DIFFRACTION"]

Ids == 1..MaxIds

\* the target files find_matches is called with, by path
Queries == {"fab.pdb", "long.pdb", "nan.pdb", "junk.pdb"}

\* std::fs::read_to_string(target_path)
QueryText(q) ==
    CASE q = "fab.pdb" -> FabLines("ALA", "ASP")
      [] q = "long.pdb" -> LongLines(52, 3)
      [] q = "nan.pdb" -> NanLines
      [] OTHER -> JunkLines

\* ------------------------------------------------------------- the storage
\* Option values: None is the empty sequence, Some(v) a sequence of one element
None == <<>>

Some(v) == <<v>>

\* a row of table antibodies after INSERT with the schema's defaults
NewRow(rec) ==
    [pdb_id |-> rec.pdb, h_chain |-> rec.h_chain, l_chain |-> rec.l_chain,
     method |-> rec.method, pdb_blob |-> None, json_blob |-> None,
     processed |-> FALSE, missing_backbone |-> 0, gaps |-> 0, passed_qc |-> FALSE]

HasRow(rows, id) == \E k \in 1..Len(rows) : rows[k].pdb_id = id

RowOf(rows, id) == rows[CHOOSE k \in 1..Len(rows) : rows[k].pdb_id = id]

\* INSERT OR IGNORE: pdb_id is the primary key
InsertOrIgnore(rows, rec) ==
    IF HasRow(rows, rec.pdb) THEN rows ELSE Append(rows, NewRow(rec))

RECURSIVE InsertAll(_, _)
InsertAll(rows, recs) ==
    IF recs = <<>> THEN rows
    ELSE InsertAll(InsertOrIgnore(rows, Head(recs)), Tail(recs))

\* UPDATE antibodies SET pdb_blob = content WHERE pdb_id = id
SetBlob(rows, id, content) ==
    [k \in 1..Len(rows) |->
        IF rows[k].pdb_id = id THEN [rows[k] EXCEPT !.pdb_blob = Some(content)]
        ELSE rows[k]]

\* mutant: the UPDATE does not set processed
SetProcessedNoFlag(rows, res) ==
    [k \in 1..Len(rows) |->
        IF rows[k].pdb_id = res.id
        THEN [rows[k] EXCEPT !.json_blob = Some(res.json),
                             !.missing_backbone = res.missing, !.gaps = res.gaps,
                             !.passed_qc = res.passed]
        ELSE rows[k]]

\* UPDATE antibodies SET processed = TRUE, json_blob, missing_backbone, gaps,
\* passed_qc WHERE pdb_id = id
SetProcessed(rows, res) ==
    [k \in 1..Len(rows) |->
        IF rows[k].pdb_id = res.id
        THEN [rows[k] EXCEPT !.processed = TRUE, !.json_blob = Some(res.json),
                             !.missing_backbone = res.missing, !.gaps = res.gaps,
                             !.passed_qc = res.passed]
        ELSE rows[k]]

\* mutant: any record counts, processed or not
is_populatedAnyRow(rows) == rows # <<>>

\* Db::is_populated
is_populated(rows) == \E k \in 1..Len(rows) : rows[k].processed

\* the bytes stored in pdb_blob are named by the id they were fetched for
BlobText(b) == RemoteFile(b)

\* Pdb::from_str of every blob and of every target file, evaluated once
DecodedBlob == [b \in Ids |-> FromStr(BlobText(b))]

DecodedQuery == [q \in Queries |-> FromStr(QueryText(q))]

\* validate() of every decoded blob, evaluated once
ReportOf == [b \in Ids |-> validate(DecodedBlob[b])]

VARIABLES
    db,          \* table antibodies as the connection sees it, in rowid order
    committed,   \* table antibodies as last committed
    txnOpen,     \* the connection has a transaction open
    pc,          \* the operation in progress and its position
    ret,         \* the result of the operation that returned: "none", "ok", "err"
    tasks,       \* process_all: the selected (id, blob, h_chain, l_chain)
    unit,        \* process_all: the state of each task's parallel unit
    wr,          \* process_all: the number of UPDATEs executed
    hist,        \* process_all: storage calls made during the current call
    query,       \* find_matches: the path of the target file
    top_n,       \* find_matches: the requested number of results
    candidates,  \* find_matches: the selected (id, blob, method)
    mdone,       \* find_matches: the candidates whose unit has completed, in
                 \* completion order
    slots,       \* find_matches: the vector being collected
    results,     \* find_matches: the returned list
    fin,         \* the input of a function applied on its own
    fout         \* its result

vars == <<db, committed, txnOpen, pc, ret, tasks, unit, wr, hist, query, top_n,
          candidates, mdone, slots, results, fin, fout>>

dbVars == <<db, committed, txnOpen>>
procVars == <<tasks, unit, wr, hist>>
matchVars == <<query, top_n, candidates, mdone, slots, results>>
funVars == <<fin, fout>>

NoHist == [reads |-> 0, begins |-> 0, updates |-> 0, commits |-> 0, overlap |-> FALSE]

Init ==
    /\ db = <<>>
    /\ committed = <<>>
    /\ txnOpen = FALSE
    /\ pc = "idle"
    /\ ret = "none"
    /\ tasks = <<>>
    /\ unit = <<>>
    /\ wr = 0
    /\ hist = NoHist
    /\ query = "none"
    /\ top_n = 0
    /\ candidates = <<>>
    /\ mdone = <<>>
    /\ slots = <<>>
    /\ results = <<>>
    /\ fin = <<>>
    /\ fout = <<>>

\* ------------------------------------------------------------ db.rs, ingestion
\* Db::insert_raw, called on a table of fewer than MaxRawRows rows
InsertRaw(id) ==
    /\ pc = "idle"
    /\ Len(db) < MaxRawRows
    /\ db' = InsertOrIgnore(db, SummaryRecord(id))
    /\ committed' = db'
    /\ UNCHANGED <<txnOpen, pc, ret>>
    /\ UNCHANGED <<procVars, matchVars, funVars>>

\* the summary files: every id ascending, every id descending
Summaries ==
    {[k \in 1..MaxIds |-> SummaryRecord(k)],
     [k \in 1..MaxIds |-> SummaryRecord(MaxIds + 1 - k)]}

RECURSIVE StoreFetched(_, _, _)
\* the UPDATE loop of populate_db over the ids to download, in order: content
\* is stored for the ids whose fetch succeeded
StoreFetched(rows, to_download, fetchedOk) ==
    IF to_download = <<>> THEN rows
    ELSE LET id == Head(to_download)
         IN  StoreFetched(IF id \in fetchedOk THEN SetBlob(rows, id, id) ELSE rows,
                          Tail(to_download), fetchedOk)

\* SELECT pdb_id FROM antibodies WHERE pdb_blob IS NULL
ToDownload(rows) ==
    LET nulls == SelectSeq(rows, LAMBDA r : r.pdb_blob = None)
    IN  [k \in 1..Len(nulls) |-> nulls[k].pdb_id]

\* populate_db: insert the summary's records, then fetch and store the
\* content of every row that has none
PopulateDb ==
    /\ pc = "idle"
    /\ \E summary \in Summaries :
         LET rows1 == InsertAll(db, summary)
             to_download == ToDownload(rows1)
         IN  \E fetchedOk \in SUBSET SeqRange(to_download) :
                /\ db' = StoreFetched(rows1, to_download, fetchedOk)
                /\ committed' = db'
    /\ txnOpen' = FALSE
    /\ ret' = "ok"
    /\ pc' = "pop_ret"
    /\ UNCHANGED <<procVars, matchVars, funVars>>

\* the caller takes the result of the operation that returned.  On an error
\* main returns it (`?`): the Db is dropped, SQLite rolls back a transaction
\* left open, and the next run opens the database file again.
Return ==
    /\ pc \in {"pop_ret", "p_ret", "m_ret"}
    /\ db' = committed
    /\ txnOpen' = FALSE
    /\ UNCHANGED committed
    /\ pc' = "idle"
    /\ ret' = "none"
    /\ tasks' = <<>>
    /\ unit' = <<>>
    /\ wr' = 0
    /\ hist' = NoHist
    /\ query' = "none"
    /\ top_n' = 0
    /\ candidates' = <<>>
    /\ mdone' = <<>>
    /\ slots' = <<>>
    /\ results' = <<>>
    /\ UNCHANGED funVars

\* ------------------------------------------------------------- process_all
\* mutant: the select does not test processed
FetchUnprocessedAgain(rows) ==
    LET sel == SelectSeq(rows, LAMBDA r : r.pdb_blob # None)
    IN  [k \in 1..Len(sel) |->
            [id |-> sel[k].pdb_id, blob |-> sel[k].pdb_blob[1],
             h_chain |-> sel[k].h_chain, l_chain |-> sel[k].l_chain]]

\* SELECT pdb_id, pdb_blob, h_chain, l_chain FROM antibodies
\*   WHERE processed = FALSE AND pdb_blob IS NOT NULL
FetchUnprocessed(rows) ==
    LET sel == SelectSeq(rows, LAMBDA r : ~r.processed /\ r.pdb_blob # None)
    IN  [k \in 1..Len(sel) |->
            [id |-> sel[k].pdb_id, blob |-> sel[k].pdb_blob[1],
             h_chain |-> sel[k].h_chain, l_chain |-> sel[k].l_chain]]

\* h_chain.chars().next().unwrap_or(dflt)
FirstCharOr(label, dflt) == IF label = <<>> THEN dflt ELSE Head(label)

\* what a task's unit derives from its blob before any numbering
UnitFacts(t) ==
    LET pdb == DecodedBlob[t.blob]
        report == ReportOf[t.blob]
    IN  [report |-> report,
         passed_qc |-> is_pass(report),
         h_seq |-> get_sequence(pdb, FirstCharOr(t.h_chain, "H")),
         l_seq |-> get_sequence(pdb, FirstCharOr(t.l_chain, "L"))]

\* mutant: numbering is attempted whatever the quality check said
ShouldNumberAnyQc(passed_qc, seq) == seq # <<>>

\* is strategy.number called for a chain's sequence
ShouldNumber(passed_qc, seq) == passed_qc /\ seq # <<>>

\* the outcomes of the heavy chain's call: not made, Ok, Err
HOutcomes(passed_qc, h_seq) ==
    IF ShouldNumber(passed_qc, h_seq) THEN {"ok", "err"} ELSE {"skip"}

\* mutant: an error of the heavy chain's call ends the unit's numbering
LOutcomesAbortOnErr(passed_qc, l_seq, h_out) ==
    IF h_out # "err" /\ passed_qc /\ l_seq # <<>> THEN {"ok", "err"} ELSE {"skip"}

\* the outcomes of the light chain's call, made whatever the heavy chain's was
LOutcomes(passed_qc, l_seq, h_out) ==
    IF ShouldNumber(passed_qc, l_seq) THEN {"ok", "err"} ELSE {"skip"}

\* AnarciStrategy::number on success: a (position label, residue) per residue
Numbered(seq) == [k \in 1..Len(seq) |-> <<k, seq[k]>>]

\* numbered_h / numbered_l after the match on the call's result
NumberingAfter(out, seq) == IF out = "ok" THEN Numbered(seq) ELSE <<>>

\* the tuple a unit returns
UnitResult(t, h_out, l_out) ==
    LET f == UnitFacts(t)
    IN  [id |-> t.id,
         json |-> [status |-> "processed", id |-> t.id,
                   h_chain_seq |-> f.h_seq, l_chain_seq |-> f.l_seq,
                   h_numbering |-> NumberingAfter(h_out, f.h_seq),
                   l_numbering |-> NumberingAfter(l_out, f.l_seq),
                   qc |-> f.report],
         missing |-> f.report.missing_backbone_residues,
         gaps |-> f.report.geometric_gaps + f.report.numbering_gaps,
         passed |-> f.passed_qc]

NewUnit == [st |-> "todo", h_out |-> "skip", l_out |-> "skip", result |-> None]

\* the select that opens process_all; with nothing to process it returns Ok
PSelect ==
    /\ pc = "idle"
    /\ tasks' = FetchUnprocessed(db)
    /\ hist' = [hist EXCEPT !.reads = @ + 1]
    /\ unit' = [k \in 1..Len(tasks') |-> NewUnit]
    /\ IF tasks' = <<>>
       THEN pc' = "p_ret" /\ ret' = "ok"
       ELSE pc' = "p_par" /\ ret' = "none"
    /\ UNCHANGED <<dbVars, wr, matchVars, funVars>>

\* a unit of the parallel map starts: decode, validate, extract the sequences
UnitRun(i) ==
    /\ pc = "p_par"
    /\ i \in 1..Len(unit)
    /\ unit[i].st = "todo"
    /\ unit' = [unit EXCEPT ![i].st = "run"]
    /\ UNCHANGED <<dbVars, pc, ret, tasks, wr, hist, matchVars, funVars>>

\* the unit makes its numbering calls and returns its tuple
UnitNumber(i) ==
    /\ pc = "p_par"
    /\ i \in 1..Len(unit)
    /\ unit[i].st = "run"
    /\ LET f == UnitFacts(tasks[i])
       IN  \E h_out \in HOutcomes(f.passed_qc, f.h_seq) :
             \E l_out \in LOutcomes(f.passed_qc, f.l_seq, h_out) :
                unit' = [unit EXCEPT ![i] =
                            [st |-> "done", h_out |-> h_out, l_out |-> l_out,
                             result |-> Some(UnitResult(tasks[i], h_out, l_out))]]
    /\ UNCHANGED <<dbVars, pc, ret, tasks, wr, hist, matchVars, funVars>>

\* mutant: the write starts once every unit has started
JoinStarted(u) == \A k \in 1..Len(u) : u[k].st # "todo"

\* collect(): the parallel map has returned every unit's tuple
JoinDone(u) == \A k \in 1..Len(u) : u[k].st = "done"

Overlap(u) == \E k \in 1..Len(u) : u[k].st = "run"

\* BEGIN TRANSACTION
PBegin ==
    /\ pc = "p_par"
    /\ JoinDone(unit)
    /\ hist' = [hist EXCEPT !.begins = @ + 1, !.overlap = @ \/ Overlap(unit)]
    /\ pc' = "p_write"
    /\ txnOpen' = TRUE
    /\ UNCHANGED <<db, committed, ret, tasks, unit, wr, matchVars, funVars>>

\* the next UPDATE of the write loop succeeds
PUpdate ==
    /\ pc = "p_write"
    /\ wr < Len(unit)
    /\ db' = SetProcessed(db, unit[wr + 1].result[1])
    /\ wr' = wr + 1
    /\ hist' = [hist EXCEPT !.updates = @ + 1, !.overlap = @ \/ Overlap(unit)]
    /\ UNCHANGED <<committed, txnOpen, pc, ret, tasks, unit, matchVars, funVars>>

\* COMMIT succeeds
PCommit ==
    /\ pc = "p_write"
    /\ wr = Len(unit)
    /\ committed' = db
    /\ txnOpen' = FALSE
    /\ hist' = [hist EXCEPT !.commits = @ + 1, !.overlap = @ \/ Overlap(unit)]
    /\ pc' = "p_ret"
    /\ ret' = "ok"
    /\ UNCHANGED <<db, tasks, unit, wr, matchVars, funVars>>

\* an UPDATE or the COMMIT fails and the error is returned with `?`: no
\* ROLLBACK is issued.  The transaction stays open (SQLITE_BUSY, a constraint)
\* or SQLite has rolled it back itself (SQLITE_FULL, SQLITE_IOERR).
PWriteFail(autoRollback) ==
    /\ pc = "p_write"
    /\ IF autoRollback
       THEN db' = committed /\ txnOpen' = FALSE
       ELSE UNCHANGED <<db, txnOpen>>
    /\ pc' = "p_ret"
    /\ ret' = "err"
    /\ UNCHANGED <<committed, tasks, unit, wr, hist, matchVars, funVars>>

\* ------------------------------------------------------------ find_matches
\* SELECT pdb_id, pdb_blob, method FROM antibodies
\*   WHERE processed = TRUE AND passed_qc = TRUE AND pdb_blob IS NOT NULL
\* mutant: the filter on passed_qc is missing
CandidateRowAnyQc(r) == r.processed /\ r.pdb_blob # None

CandidateRow(r) == r.processed /\ r.passed_qc /\ r.pdb_blob # None

FetchCandidates(rows) ==
    LET sel == SelectSeq(rows, CandidateRow)
    IN  [k \in 1..Len(sel) |->
            [id |-> sel[k].pdb_id, blob |-> sel[k].pdb_blob[1], method |-> sel[k].method]]

\* the number of leading atoms the RMSD is taken over
Limit(target_atoms, cand_atoms) ==
    Min(Min(Len(target_atoms), Len(cand_atoms)), WindowCap)

\* the score of one candidate, in units of 1/(2 * Scale)
MatchScore(target_atoms, cand_atoms) ==
    LET limit == Limit(target_atoms, cand_atoms)
        rmsd_score ==
            IF limit > 0
            THEN Similarity(rmsd(SubSeq(target_atoms, 1, limit),
                                 SubSeq(cand_atoms, 1, limit)))
            ELSE 0
        rama_score ==
            ramachandran_score(ramachandran(target_atoms), ramachandran(cand_atoms))
    IN  IF rmsd_score = NaN \/ rama_score = NaN THEN NaN ELSE rmsd_score + rama_score

\* the score of every blob against every target file, evaluated once
ScoreOf == [q \in Queries, b \in Ids |-> MatchScore(DecodedQuery[q], DecodedBlob[b])]

\* the MatchResult of one candidate's unit
MatchResultOf(q, c) ==
    [pdb_id |-> c.id, score |-> ScoreOf[q, c.blob], method |-> c.method]

\* b.score.partial_cmp(&a.score): no order when either score is NaN
Comparable(a, b) == a.score # NaN /\ b.score # NaN

\* mutant: the comparison is the other way round (ascending)
SortsBeforeAscending(a, b) == Comparable(a, b) /\ a.score < b.score

\* the comparator of sort_by: a sorts before b when b.score < a.score; two
\* results without an order compare Equal
SortsBefore(a, b) == Comparable(a, b) /\ b.score < a.score

\* the stable sort of a short slice: an element moves left past every
\* neighbour it sorts before, and stops at the first it does not
InsertSorted(sorted, x) ==
    LET pass == {k \in 0..Len(sorted) :
                    \A j \in (k + 1)..Len(sorted) : SortsBefore(x, sorted[j])}
        n == CHOOSE k \in pass : \A m \in pass : k <= m
    IN  SubSeq(sorted, 1, n) \o <<x>> \o SubSeq(sorted, n + 1, Len(sorted))

RECURSIVE SortInto(_, _)
SortInto(sorted, rest) ==
    IF rest = <<>> THEN sorted
    ELSE SortInto(InsertSorted(sorted, Head(rest)), Tail(rest))

\* results.sort_by(...)
SortByScore(rs) == SortInto(<<>>, rs)

\* into_iter().take(n)
Take(rs, n) == SubSeq(rs, 1, Min(n, Len(rs)))

\* mutant: results are collected in completion order
SlotForArrival(i, done) == Len(done) + 1

\* the position of the collected vector that candidate i's result is written
\* to: an indexed parallel iterator collects in input order
SlotFor(i, done) == i

\* the target file is read and decoded and the candidates are fetched
MStart(q) ==
    /\ pc = "idle"
    /\ query' = q
    /\ candidates' = FetchCandidates(db)
    /\ slots' = [k \in 1..Len(candidates') |-> None]
    /\ mdone' = <<>>
    /\ pc' = "m_par"
    /\ UNCHANGED <<dbVars, ret, procVars, top_n, results, funVars>>

\* the target file cannot be read
MReadFail ==
    /\ pc = "idle"
    /\ pc' = "m_ret"
    /\ ret' = "err"
    /\ UNCHANGED <<dbVars, procVars, matchVars, funVars>>

\* the unit of candidate i completes
MUnit(i) ==
    /\ pc = "m_par"
    /\ i \in 1..Len(candidates)
    /\ i \notin SeqRange(mdone)
    /\ slots' = [slots EXCEPT ![SlotFor(i, mdone)] =
                    Some(MatchResultOf(query, candidates[i]))]
    /\ mdone' = Append(mdone, i)
    /\ UNCHANGED <<dbVars, pc, ret, procVars, query, top_n, candidates, results, funVars>>

\* every unit has completed: sort, truncate to top_n (read only here), return
MSort(n) ==
    /\ pc = "m_par"
    /\ Len(mdone) = Len(candidates)
    /\ top_n' = n
    /\ results' = Take(SortByScore([k \in 1..Len(slots) |-> slots[k][1]]), n)
    /\ pc' = "m_ret"
    /\ ret' = "ok"
    /\ UNCHANGED <<dbVars, procVars, query, candidates, mdone, slots, funVars>>

\* --------------------------------------------------------- specifications
Next ==
    \/ \E id \in Ids : InsertRaw(id)
    \/ PopulateDb
    \/ PSelect
    \/ \E i \in 1..MaxIds : UnitRun(i)
    \/ \E i \in 1..MaxIds : UnitNumber(i)
    \/ PBegin
    \/ PUpdate
    \/ PCommit
    \/ \E autoRollback \in BOOLEAN : PWriteFail(autoRollback)
    \/ \E q \in Queries : MStart(q)
    \/ MReadFail
    \/ \E i \in 1..MaxIds : MUnit(i)
    \/ \E n \in 0..MaxTopN : MSort(n)
    \/ Return

Spec == Init /\ [][Next]_vars

\* ---------------------------------------------- validate applied on its own
\* A residue of an input structure: its chain, sequence number, which of the
\* backbone atoms it has, and whether it lies far from the residue before it.
ResidueShapes ==
    [chain : {"A", "B"}, seq : {1, 2, 4}, kind : {"full", "noC", "noN", "noCA", "onlyCA"},
     far : BOOLEAN]

RECURSIVE ShapeAtoms(_, _, _)
\* the atoms of the residues rs, the first at x = x0
ShapeAtoms(rs, x0, icode) ==
    IF rs = <<>> THEN <<>>
    ELSE LET r == Head(rs)
             x == IF r.far THEN x0 + 10 ELSE x0
             n == IF r.kind \in {"noN", "onlyCA"} THEN <<>>
                  ELSE <<AtomOf("N", "ALA", r.chain, r.seq, icode, x, 0, 0)>>
             ca == IF r.kind = "noCA" THEN <<>>
                   ELSE <<AtomOf("CA", "ALA", r.chain, r.seq, icode, x + 1, 1, 0)>>
             c == IF r.kind \in {"noC", "onlyCA"} THEN <<>>
                  ELSE <<AtomOf("C", "ALA", r.chain, r.seq, icode, x + 2, 0, 0)>>
         IN  n \o ca \o c \o ShapeAtoms(Tail(rs), x + 3, icode)

ShapeLists == UNION {[1..n -> ResidueShapes] : n \in 0..MaxRes}

ValidateInputs == {ShapeAtoms(rs, 0, " ") : rs \in ShapeLists}

InitWith(f) ==
    /\ db = <<>>
    /\ committed = <<>>
    /\ txnOpen = FALSE
    /\ pc = "idle"
    /\ ret = "none"
    /\ tasks = <<>>
    /\ unit = <<>>
    /\ wr = 0
    /\ hist = NoHist
    /\ query = "none"
    /\ top_n = 0
    /\ candidates = <<>>
    /\ mdone = <<>>
    /\ slots = <<>>
    /\ results = <<>>
    /\ fin \in f
    /\ fout = None

\* Pdb::validate is applied to the input structure
ApplyValidate ==
    /\ fout = None
    /\ fout' = Some(validate(fin))
    /\ UNCHANGED <<dbVars, pc, ret, procVars, matchVars, fin>>

ValidateSpec == InitWith(ValidateInputs) /\ [][ApplyValidate]_vars

\* ----------------------------------------------- is_pass applied on its own
\* the QualityReports is_pass is applied to
Reports ==
    [missing_backbone_residues : 0..MaxMissing, numbering_gaps : 0..MaxGaps,
     geometric_gaps : 0..MaxGaps]

\* an input is a report, or the id of a stored, downloaded, unprocessed item
IsPassInputs == {<<"report", r>> : r \in Reports} \cup {<<"item", id>> : id \in Ids}

\* QualityReport::is_pass is applied to the input report
ApplyIsPass ==
    /\ fout = None
    /\ fin[1] = "report"
    /\ fout' = Some(is_pass(fin[2]))
    /\ UNCHANGED <<dbVars, pc, ret, procVars, matchVars, fin>>

\* process_all on a table holding the input item alone: its unit runs, with
\* some outcome of each numbering call, and its row is updated
ApplyProcessItem ==
    /\ fout = None
    /\ fin[1] = "item"
    /\ LET rows == SetBlob(<<NewRow(SummaryRecord(fin[2]))>>, fin[2], fin[2])
           t == FetchUnprocessed(rows)[1]
           f == UnitFacts(t)
       IN  \E h_out \in HOutcomes(f.passed_qc, f.h_seq) :
             \E l_out \in LOutcomes(f.passed_qc, f.l_seq, h_out) :
               fout' = Some(SetProcessed(rows, UnitResult(t, h_out, l_out))[1])
    /\ UNCHANGED <<dbVars, pc, ret, procVars, matchVars, fin>>

IsPassNext == ApplyIsPass \/ ApplyProcessItem

IsPassSpec == InitWith(IsPassInputs) /\ [][IsPassNext]_vars

\* ------------------------------------------ ramachandran applied on its own
\* The structures ramachandran is applied to: a chain "A" of nA residues
\* numbered 1..nA followed by a chain "B" of nB residues numbered 1..nB.  After
\* residue ins of chain A (if any) comes a residue of the same number with
\* insertion code "A"; the residue at file position lack (if any) lacks the
\* atom lackAtom; flat structures have every atom in the plane z = 0.
RamaShapes ==
    [nA : 0..MaxChainRes, nB : 0..MaxChainRes, ins : 0..MaxChainRes,
     lack : 0..MaxChainRes, lackAtom : {"N", "CA", "C"}, flat : BOOLEAN]

\* the (chain, number, insertion code) of the residues of a shape, in file order
ShapeResidues(sh) ==
    LET hasIns == sh.ins \in 1..sh.nA
        lenA == sh.nA + (IF hasIns THEN 1 ELSE 0)
        a == [j \in 1..lenA |->
                 IF ~hasIns \/ j <= sh.ins THEN <<"A", j, " ">>
                 ELSE IF j = sh.ins + 1 THEN <<"A", sh.ins, "A">>
                 ELSE <<"A", j - 1, " ">>]
        b == [j \in 1..sh.nB |-> <<"B", j, " ">>]
    IN  a \o b

RECURSIVE ShapeLines(_, _, _)
\* the lines of the residues ds, the first at file position j
ShapeLines(sh, ds, j) ==
    IF ds = <<>> THEN <<>>
    ELSE LET d == Head(ds)
             all == Residue(d[1], d[2], d[3], "ALA", j - 1, IF sh.flat THEN 0 ELSE j % 2)
             kept == IF j = sh.lack
                     THEN SelectSeq(all, LAMBDA l : l.atom.name # sh.lackAtom)
                     ELSE all
         IN  kept \o ShapeLines(sh, Tail(ds), j + 1)

RamaInputs == {FromStr(ShapeLines(sh, ShapeResidues(sh), 1)) : sh \in RamaShapes}

\* ramachandran is applied to the input structure
ApplyRamachandran ==
    /\ fout = None
    /\ fout' = Some(ramachandran(fin))
    /\ UNCHANGED <<dbVars, pc, ret, procVars, matchVars, fin>>

RamaSpec == InitWith(RamaInputs) /\ [][ApplyRamachandran]_vars

\* ------------------------------------- the residue grouping of the operations
\* validate, ramachandran and get_sequence are applied to the input structure
\* (for the chain "A"); the number of residues each of them forms is recorded
ApplyGrouping ==
    /\ fout = None
    /\ fout' = Some([validate |-> Len(ValidateResidues(ChainAtoms(fin, "A"))),
                     ramachandran |-> Len(RamaResidues(fin)),
                     get_sequence |-> Len(get_sequence(fin, "A"))])
    /\ UNCHANGED <<dbVars, pc, ret, procVars, matchVars, fin>>

GroupingSpec == InitWith(RamaInputs) /\ [][ApplyGrouping]_vars

\* --------------------------------------------------- rmsd applied on its own
\* the positions of the atoms rmsd is applied to; one has a NaN coordinate
RmsdPoints == {<<0, 0, 0>>, <<1, 0, 0>>, <<2, 0, 0>>, <<NaN, 0, 0>>}

\* the mock_atom of the unit tests
MockAtom(p) == AtomOf("CA", "ALA", "A", 1, " ", p[1], p[2], p[3])

AtomLists == UNION {[1..n -> {MockAtom(p) : p \in RmsdPoints}] : n \in 0..MaxAtoms}

RmsdInputs == AtomLists \X AtomLists

\* rmsd is applied to the two input lists
ApplyRmsd ==
    /\ fout = None
    /\ fout' = Some(rmsd(fin[1], fin[2]))
    /\ UNCHANGED <<dbVars, pc, ret, procVars, matchVars, fin>>

RmsdSpec == InitWith(RmsdInputs) /\ [][ApplyRmsd]_vars

\* ------------------------------------- ramachandran_score applied on its own
\* the (phi, psi) pairs of the lists ramachandran_score is applied to: angles
\* in [-PI, PI], and the NaN angle of a residue with a NaN coordinate
AnglePairs == {<<0, 0>>, <<157, -157>>, <<-314, 314>>, <<NaN, 0>>}

AngleLists == UNION {[1..n -> AnglePairs] : n \in 0..MaxAngles}

RamaScoreInputs == AngleLists \X AngleLists

\* ramachandran_score is applied to the two input lists
ApplyRamaScore ==
    /\ fout = None
    /\ fout' = Some(ramachandran_score(fin[1], fin[2]))
    /\ UNCHANGED <<dbVars, pc, ret, procVars, matchVars, fin>>

RamaScoreSpec == InitWith(RamaScoreInputs) /\ [][ApplyRamaScore]_vars

\* ------------------------------------------ torsion_angle applied on its own
\* the corners of the unit cube
CubePoints == {<<x, y, z>> : x \in {0, 1}, y \in {0, 1}, z \in {0, 1}}

TorsionInputs == CubePoints \X CubePoints \X CubePoints \X CubePoints

\* torsion_angle is applied to the four input points
ApplyTorsion ==
    /\ fout = None
    /\ fout' = Some(torsion_angle(fin[1], fin[2], fin[3], fin[4]))
    /\ UNCHANGED <<dbVars, pc, ret, procVars, matchVars, fin>>

TorsionSpec == InitWith(TorsionInputs) /\ [][ApplyTorsion]_vars

\* -------------------------------------------------- align applied on its own
\* the residue sequences align is applied to
CharSeqs == UNION {[1..n -> {"A", "B"}] : n \in 0..MaxSeqLen}

AlignInputs == CharSeqs \X CharSeqs

\* align is applied to the two input sequences
ApplyAlign ==
    /\ fout = None
    /\ fout' = Some(align(fin[1], fin[2]))
    /\ UNCHANGED <<dbVars, pc, ret, procVars, matchVars, fin>>

AlignSpec == InitWith(AlignInputs) /\ [][ApplyAlign]_vars

\* ------------------------------------------- the decoder applied to text
\* A line of text is a sequence of characters; a character is a one-letter
\* string, or "U+00E9" for a character whose UTF-8 encoding takes two bytes.
\* Byte offsets are 0-based, as in the source.
\* the byte offset at which character k of the line starts (k = Len + 1: the
\* end of the line, str::len)
ByteOffset(line, k) ==
    SumSeq([j \in 1..(k - 1) |-> IF line[j] = "U+00E9" THEN 2 ELSE 1])

\* str::get(a..b): the characters of the bytes a..b, or None when a or b is
\* beyond the end or inside a character
str_get(line, a, b) ==
    LET at(o) == {k \in 1..(Len(line) + 1) : ByteOffset(line, k) = o}
    IN  IF at(a) = {} \/ at(b) = {} THEN None
        ELSE Some(SubSeq(line, CHOOSE k \in at(a) : TRUE, (CHOOSE k \in at(b) : TRUE) - 1))

\* str::trim, for the whitespace of the catalogue (the space)
trim(s) ==
    LET ns == {k \in 1..Len(s) : s[k] # " "}
    IN  IF ns = {} THEN <<>>
        ELSE SubSeq(s, CHOOSE k \in ns : \A m \in ns : k <= m,
                       CHOOSE k \in ns : \A m \in ns : k >= m)

\* the value of a run of at most 8 decimal digits, None when the run is empty
\* or holds another character
ParseDigits(ds) ==
    LET digits == <<"0", "1", "2", "3", "4", "5", "6", "7", "8", "9">>
        val(c) == (CHOOSE d \in 1..10 : digits[d] = c) - 1
        pow == <<1, 10, 100, 1000, 10000, 100000, 1000000, 10000000>>
    IN  IF ds = <<>> \/ \E k \in 1..Len(ds) : ds[k] \notin SeqRange(digits) THEN None
        ELSE Some(SumSeq([k \in 1..Len(ds) |-> val(ds[k]) * pow[Len(ds) - k + 1]]))

\* str::parse::<i32> of a field of at most 8 characters: an optional sign and
\* one or more digits
parse_i32(s) ==
    LET signed == s # <<>> /\ s[1] \in {"+", "-"}
        body == IF signed THEN Tail(s) ELSE s
        v == ParseDigits(body)
    IN  IF v = None THEN None
        ELSE Some(IF signed /\ s[1] = "-" THEN -v[1] ELSE v[1])

\* str::parse::<f64> of a field of at most 8 characters, for the forms "NaN"
\* and an optional sign, digits and an optional point followed by digits; the
\* value is rendered in whole angstroms (the catalogue's fractions are zero)
parse_f64(s) ==
    LET signed == s # <<>> /\ s[1] \in {"+", "-"}
        body == IF signed THEN Tail(s) ELSE s
        dots == {k \in 1..Len(body) : body[k] = "."}
        whole == IF dots = {} THEN body
                 ELSE SubSeq(body, 1, (CHOOSE k \in dots : TRUE) - 1)
        frac == IF dots = {} THEN <<>>
                ELSE SubSeq(body, (CHOOSE k \in dots : TRUE) + 1, Len(body))
        v == ParseDigits(whole)
    IN  IF s = <<"N", "a", "N">> THEN Some(NaN)
        ELSE IF Cardinality(dots) > 1 \/ v = None
                  \/ (frac # <<>> /\ ParseDigits(frac) = None) THEN None
        ELSE Some(IF signed /\ s[1] = "-" THEN -v[1] ELSE v[1])

\* Atom::from_line on a line of text: Some(atom) or None
from_line(line) ==
    IF SubSeq(line, 1, 4) # <<"A", "T", "O", "M">>
         /\ SubSeq(line, 1, 6) # <<"H", "E", "T", "A", "T", "M">> THEN None
    ELSE IF ByteOffset(line, Len(line) + 1) < MinLineLen THEN None
    ELSE LET chars_nth(l, n) == IF n + 1 <= Len(l) THEN Some(l[n + 1]) ELSE None
             serialF == str_get(line, 6, 11)
             nameF == str_get(line, 12, 16)
             alt_loc == chars_nth(line, 16)
             res_nameF == str_get(line, 17, 20)
             chain_id == chars_nth(line, 21)
             res_seqF == str_get(line, 22, 26)
             i_code == chars_nth(line, 26)
             xF == str_get(line, 30, 38)
             yF == str_get(line, 38, 46)
             zF == str_get(line, 46, 54)
         IN  IF None \in {serialF, nameF, alt_loc, res_nameF, chain_id, res_seqF, i_code,
                          xF, yF, zF} THEN None
             ELSE LET serial == parse_i32(trim(serialF[1]))
                      res_seq == parse_i32(trim(res_seqF[1]))
                      x == parse_f64(trim(xF[1]))
                      y == parse_f64(trim(yF[1]))
                      z == parse_f64(trim(zF[1]))
                  IN  IF None \in {serial, res_seq, x, y, z} THEN None
                      ELSE Some([serial |-> serial[1], name |-> trim(nameF[1]),
                                 alt_loc |-> alt_loc[1], res_name |-> trim(res_nameF[1]),
                                 chain_id |-> chain_id[1], res_seq |-> res_seq[1],
                                 i_code |-> i_code[1], pos |-> <<x[1], y[1], z[1]>>])

RECURSIVE from_str(_)
\* Pdb::from_str on text: lines().filter_map(Atom::from_line).collect()
from_str(lines) ==
    IF lines = <<>> THEN <<>>
    ELSE from_line(Head(lines)) \o from_str(Tail(lines))

\* The lines the texts are made of.  A line is laid out in the fixed columns
\* of the format from its record name (6 bytes), serial (5), atom name (4),
\* alternate location (1), residue name (3), chain (1), residue number (4),
\* insertion code (1), x, y, z (8 each) and the rest of the line.
TextLines ==
    LET sp(n) == [k \in 1..n |-> " "]
        right(s, w) == sp(w - Len(s)) \o s
        lay(rec, serial, name, alt, res, chain, seq, icode, x, y, z, rest) ==
            rec \o right(serial, 5) \o sp(1) \o name \o alt \o res \o sp(1) \o chain
              \o right(seq, 4) \o icode \o sp(3) \o right(x, 8) \o right(y, 8)
              \o right(z, 8) \o rest
        ATOM == <<"A", "T", "O", "M", " ", " ">>
        N == <<" ", "N", " ", " ">>
        ALA == <<"A", "L", "A">>
        ten == <<"1", "0", ".", "0", "0", "0">>
        std(rec, serial, seq, x, y, z, rest) ==
            lay(rec, serial, N, sp(1), ALA, <<"A">>, seq, sp(1), x, y, z, rest)
    IN  { std(ATOM, <<"1">>, <<"1">>, ten, ten, ten, sp(26)),
          std(<<"H", "E", "T", "A", "T", "M">>, <<"2">>, <<"-", "2">>, ten, ten, ten, sp(26)),
          std(<<"R", "E", "M", "A", "R", "K">>, <<"3">>, <<"1">>, ten, ten, ten, sp(26)),
          std(<<"A", "T", "O", "M", "S", " ">>, <<"4">>, <<"1">>, ten, ten, ten, sp(26)),
          std(<<"a", "t", "o", "m", " ", " ">>, <<"5">>, <<"1">>, ten, ten, ten, sp(26)),
          std(ATOM, <<"6">>, <<"1">>, ten, ten, ten, <<>>),
          SubSeq(std(ATOM, <<"7">>, <<"1">>, ten, ten, ten, <<>>), 1, 53),
          std(ATOM, <<"a", "b", "c">>, <<"1">>, ten, ten, ten, sp(26)),
          std(ATOM, <<"9">>, <<>>, ten, ten, ten, sp(26)),
          std(ATOM, <<"1", "0">>, <<"1">>, <<"N", "a", "N">>, ten, ten, sp(26)),
          std(ATOM, <<"1", "1">>, <<"1">>, ten, <<"1", ".", "2", ".", "3">>, ten, sp(26)),
          std(<<"A", "T", "O", "M", "U+00E9">>, <<"1", "2">>, <<"1">>, ten, ten, ten, <<>>),
          lay(ATOM, <<"1", "3">>, N, <<"U+00E9">>, <<"L", "A">>, <<"A">>, <<"1">>, sp(1),
              ten, ten, ten, sp(26)) }

\* An input is a text of up to MaxLines lines for from_str, or a structure
\* and a chain for get_sequence: one atom of any residue name (the twenty
\* standard names and two others), or up to MaxSeqAtoms atoms of the chains
\* "A" and "B", residues 1 and 2, with and without an insertion code.
DecodeInputs ==
    LET texts == UNION {[1..n -> TextLines] : n \in 0..MaxLines}
        names == {"ALA", "CYS", "ASP", "GLU", "PHE", "GLY", "HIS", "ILE", "LYS", "LEU",
                  "MET", "ASN", "PRO", "GLN", "ARG", "SER", "THR", "VAL", "TRP", "TYR",
                  "UNK", "HOH"}
        atoms(rns) ==
            {AtomOf("CA", rn, ch, rs, ic, 0, 0, 0) :
                rn \in rns, ch \in {"A", "B"}, rs \in {1, 2}, ic \in {" ", "A"}}
        lists == {<<a>> : a \in atoms(names)}
                   \cup UNION {[1..n -> atoms({"ALA", "UNK"})] : n \in 0..MaxSeqAtoms}
    IN  {<<"text", t>> : t \in texts} \cup {<<"chain", i>> : i \in lists \X {"A", "C"}}

\* Pdb::from_str is applied to the input text
ApplyFromStr ==
    /\ fout = None
    /\ fin[1] = "text"
    /\ fout' = Some(from_str(fin[2]))
    /\ UNCHANGED <<dbVars, pc, ret, procVars, matchVars, fin>>

\* Pdb::get_sequence is applied to the input structure and chain
ApplyGetSequence ==
    /\ fout = None
    /\ fin[1] = "chain"
    /\ fout' = Some(get_sequence(fin[2][1], fin[2][2]))
    /\ UNCHANGED <<dbVars, pc, ret, procVars, matchVars, fin>>

DecodeNext == ApplyFromStr \/ ApplyGetSequence

DecodeSpec == InitWith(DecodeInputs) /\ [][DecodeNext]_vars

\* ------------------------------- the candidate units of find_matches alone
\* The contents of the candidates: text without atoms, the two-chain
\* structure, the 54-atom chain, the structure with a NaN coordinate, and a
\* chain of two residues (too few for an angle pair).  All pass validate.
RankFiles ==
    <<JunkLines, FabLines("ALA", "ASP"), LongLines(54, 1), NanLines,
      Residue("H", 1, " ", "ALA", 0, 1) \o Residue("H", 2, " ", "GLY", 1, 0)>>

\* a target file, and up to MaxCands candidates (pdb_id, pdb_blob, method) in
\* the order storage returns them; a candidate's id names its content
RankInputs ==
    LET lists == UNION {{c \in [1..n -> 1..Len(RankFiles)] :
                            \A i, j \in 1..n : i # j => c[i] # c[j]} : n \in 0..MaxCands}
    IN  {<<q, [k \in 1..Len(c) |-> [id |-> c[k], blob |-> RankFiles[c[k]],
                                    method |-> "X-RAY DIFFRACTION"]]>> :
            q \in Queries, c \in lists}

\* mutant: a candidate that decodes to no atoms is left out
CollectedSkipEmpty(target_atoms, cands) ==
    LET kept == SelectSeq(cands, LAMBDA c : FromStr(c.blob) # <<>>)
    IN  [k \in 1..Len(kept) |->
            [pdb_id |-> kept[k].id, score |-> MatchScore(target_atoms, FromStr(kept[k].blob)),
             method |-> kept[k].method]]

\* candidates.par_iter().map(...).collect(): one MatchResult per candidate,
\* in the candidates' order
Collected(target_atoms, cands) ==
    [k \in 1..Len(cands) |->
        [pdb_id |-> cands[k].id, score |-> MatchScore(target_atoms, FromStr(cands[k].blob)),
         method |-> cands[k].method]]

\* the parallel map of find_matches is applied to the target and candidates
ApplyCollect ==
    /\ fout = None
    /\ fout' = Some(Collected(DecodedQuery[fin[1]], fin[2]))
    /\ UNCHANGED <<dbVars, pc, ret, procVars, matchVars, fin>>

RankSpec == InitWith(RankInputs) /\ [][ApplyCollect]_vars

\* ---------------------------------------------- populate_db applied on its own
RECURSIVE FetchLoopOneMore(_, _, _)
\* mutant: a fourth attempt is made
FetchLoopOneMore(id, answers, k) ==
    IF k > FetchAttempts + 1 THEN [calls |-> k - 1, content |-> None]
    ELSE IF answers[k] THEN [calls |-> k, content |-> Some(id)]
    ELSE FetchLoopOneMore(id, answers, k + 1)

RECURSIVE FetchLoop(_, _, _)
\* the retry loop of one id from attempt k on: answers[k] tells whether the
\* k-th request to the archive succeeds.  The loop returns at the first Ok and
\* gives up after FetchAttempts requests; the result is the number of
\* fetch_pdb calls made and the content, if any.
FetchLoop(id, answers, k) ==
    IF k > FetchAttempts THEN [calls |-> k - 1, content |-> None]
    ELSE IF answers[k] THEN [calls |-> k, content |-> Some(id)]
    ELSE FetchLoop(id, answers, k + 1)

\* An input is the table before the run, the summary file, and for every id
\* the archive's answers to successive requests.  The table is empty, or the
\* one left by a run that obtained content for id 1 only, followed by
\* process_all.
PopulateInputs ==
    LET S == [k \in 1..MaxIds |-> SummaryRecord(k)]
        got == SetBlob(InsertAll(<<>>, S), 1, 1)
        done == SetProcessed(got, UnitResult(FetchUnprocessed(got)[1], "ok", "ok"))
        answers == {<<TRUE, TRUE, TRUE, TRUE>>, <<FALSE, TRUE, FALSE, TRUE>>,
                    <<FALSE, FALSE, TRUE, TRUE>>, <<FALSE, FALSE, FALSE, TRUE>>,
                    <<FALSE, FALSE, FALSE, FALSE>>}
    IN  {<<>>, got, done} \X Summaries \X [Ids -> answers]

\* populate_db is applied to the input: the records are inserted, every id
\* without content is fetched, and the content obtained is stored
ApplyPopulateDb ==
    /\ fout = None
    /\ LET rows1 == InsertAll(fin[1], fin[2])
           to_download == ToDownload(rows1)
           fetched == [id \in SeqRange(to_download) |-> FetchLoop(id, fin[3][id], 1)]
           ok == {id \in SeqRange(to_download) : fetched[id].content # None}
       IN  fout' = Some([rows |-> StoreFetched(rows1, to_download, ok),
                         calls |-> [id \in SeqRange(to_download) |-> fetched[id].calls]])
    /\ UNCHANGED <<dbVars, pc, ret, procVars, matchVars, fin>>

PopulateSpec == InitWith(PopulateInputs) /\ [][ApplyPopulateDb]_vars

\* ------------------------------------------------------- a run of the program
\* main: while a run is in progress fin holds its force_update flag and fout
\* its record: the operation main calls next (stage), the operations that
\* have returned, with their results (calls), and the table the run started
\* with (start).
\* download_summary fails and populate_db returns the error with `?`
PopulateFail ==
    /\ pc = "idle"
    /\ pc' = "pop_ret"
    /\ ret' = "err"
    /\ UNCHANGED <<dbVars, procVars, matchVars, funVars>>

\* the program is started: the database is opened and needs_init evaluated
MainStart(force_update) ==
    /\ pc = "idle"
    /\ fout = None
    /\ fin' = <<force_update>>
    /\ LET needs_init == ~is_populated(db) \/ force_update
       IN  fout' = Some([stage |-> IF needs_init THEN "populate_db" ELSE "find_matches",
                         calls |-> <<>>, start |-> db])
    /\ UNCHANGED <<dbVars, pc, ret, procVars, matchVars>>

\* the operation main called returns: on Err main returns the error (`?`),
\* on Ok it goes on to the next call; after find_matches it prints and returns
MainReturn ==
    /\ pc \in {"pop_ret", "p_ret", "m_ret"}
    /\ fout # None
    /\ LET op == fout[1].stage
           next == IF ret = "err" THEN "exit"
                   ELSE IF op = "populate_db" THEN "process_all"
                   ELSE IF op = "process_all" THEN "find_matches"
                   ELSE "exit"
       IN  fout' = Some([fout[1] EXCEPT !.stage = next, !.calls = Append(@, <<op, ret>>)])
    /\ db' = committed
    /\ txnOpen' = FALSE
    /\ pc' = "idle"
    /\ ret' = "none"
    /\ tasks' = <<>>
    /\ unit' = <<>>
    /\ wr' = 0
    /\ hist' = NoHist
    /\ query' = "none"
    /\ top_n' = 0
    /\ candidates' = <<>>
    /\ mdone' = <<>>
    /\ slots' = <<>>
    /\ results' = <<>>
    /\ UNCHANGED <<committed, fin>>

\* the process ends
MainExit ==
    /\ pc = "idle"
    /\ fout # None
    /\ fout[1].stage = "exit"
    /\ fin' = <<>>
    /\ fout' = None
    /\ UNCHANGED <<dbVars, pc, ret, procVars, matchVars>>

MainNext ==
    \/ \E force_update \in BOOLEAN : MainStart(force_update)
    \/ fout # None /\ fout[1].stage = "populate_db" /\ PopulateDb
    \/ fout # None /\ fout[1].stage = "populate_db" /\ PopulateFail
    \/ fout # None /\ fout[1].stage = "process_all" /\ PSelect
    \/ \E i \in 1..MaxIds : UnitRun(i)
    \/ \E i \in 1..MaxIds : UnitNumber(i)
    \/ PBegin
    \/ PUpdate
    \/ PCommit
    \/ \E autoRollback \in BOOLEAN : PWriteFail(autoRollback)
    \/ fout # None /\ fout[1].stage = "find_matches" /\ \E q \in Queries : MStart(q)
    \/ fout # None /\ fout[1].stage = "find_matches" /\ MReadFail
    \/ \E i \in 1..MaxIds : MUnit(i)
    \/ \E n \in 0..MaxTopN : MSort(n)
    \/ MainReturn
    \/ MainExit

MainSpec == InitWith({<<>>}) /\ [][MainNext]_vars

\* ------------------------------------------------------------------ claims
\* what the claims say of a task, from its blob and chain labels alone
BlobPasses == [b \in Ids |-> is_pass(validate(FromStr(BlobText(b))))]

BlobReport == [b \in Ids |-> validate(FromStr(BlobText(b)))]

BlobSeq == [b \in Ids, ch \in {"H", "L", "K"} |-> get_sequence(FromStr(BlobText(b)), ch)]

TaskPasses(t) == BlobPasses[t.blob]

TaskHSeq(t) == BlobSeq[t.blob, IF t.h_chain = <<>> THEN "H" ELSE t.h_chain[1]]

TaskLSeq(t) == BlobSeq[t.blob, IF t.l_chain = <<>> THEN "L" ELSE t.l_chain[1]]

\* the find_matches call has returned a list
Ranked == pc = "m_ret" /\ ret = "ok"

\* the result of candidate k, computed from the call's inputs alone
RefResult(k) == MatchResultOf(query, candidates[k])

RefResults == [k \in 1..Len(candidates) |-> RefResult(k)]

\* C1 (as claimed): the returned list is ordered by score descending and,
\* among equal scores, by candidate id ascending.  Stated for lists whose
\* scores are all numbers.
C1_ScoreThenId ==
    (Ranked /\ \A k \in 1..Len(results) : results[k].score # NaN) =>
        \A i, j \in 1..Len(results) :
            i < j =>
                \/ results[i].score > results[j].score
                \/ /\ results[i].score = results[j].score
                   /\ results[i].pdb_id < results[j].pdb_id

\* C2: whatever order the per-candidate units complete in, every collected
\* result is the one of the candidate at that position, and the returned list
\* is the sorted, truncated list computed from the query and the candidates
\* in the order storage returned them.
C2_CompletionOrderFree ==
    /\ pc \in {"m_par", "m_ret"} =>
          \A k \in 1..Len(slots) :
              slots[k] # None => (k \in SeqRange(mdone) /\ slots[k] = Some(RefResult(k)))
    /\ Ranked => results = Take(SortByScore(RefResults), top_n)

\* C2 witness: two candidates of equal score completed in the order opposite
\* to their positions, and a list was returned.
C2_Witness ==
    /\ Ranked
    /\ Len(candidates) >= 2
    /\ \E a, b \in 1..Len(mdone) :
          /\ a < b
          /\ mdone[a] > mdone[b]
          /\ RefResult(mdone[a]).score = RefResult(mdone[b]).score
    /\ Len(results) >= 2

\* the candidates' scores are numbers, no two of them equal
DistinctScores ==
    /\ \A i \in 1..Len(candidates) : RefResult(i).score # NaN
    /\ \A i, j \in 1..Len(candidates) : i # j => RefResult(i).score # RefResult(j).score

\* C3: with K candidates of pairwise distinct scores, exactly min(top_n, K)
\* results are returned, in strictly descending score order, and no candidate
\* left out scores higher than one returned.
C3_TopN ==
    (Ranked /\ DistinctScores) =>
        /\ Len(results) = Min(top_n, Len(candidates))
        /\ \A i \in 1..(Len(results) - 1) : results[i].score > results[i + 1].score
        /\ SeqRange(results) \subseteq SeqRange(RefResults)
        /\ \A r \in SeqRange(RefResults) \ SeqRange(results) :
              \A x \in SeqRange(results) : r.score < x.score

\* C3 witness: two or more candidates of distinct scores, stored in ascending
\* score order, and a top_n that cuts the list.
C3_Witness ==
    /\ Ranked
    /\ DistinctScores
    /\ Len(candidates) >= 2
    /\ RefResult(1).score < RefResult(2).score
    /\ top_n >= 1
    /\ top_n < Len(candidates)

\* C4: every id of a returned list is the id of a stored row that is
\* processed, passed quality control (its flag is set and its content passes)
\* and has content.
C4_OnlyEligible ==
    Ranked =>
        \A k \in 1..Len(results) :
            /\ HasRow(committed, results[k].pdb_id)
            /\ LET r == RowOf(committed, results[k].pdb_id)
               IN  /\ r.processed
                   /\ r.passed_qc
                   /\ r.pdb_blob # None
                   /\ BlobPasses[r.pdb_blob[1]]

\* C4 witness: a list is returned while storage holds a processed row that
\* failed QC, and a row without content.
C4_Witness ==
    /\ Ranked
    /\ results # <<>>
    /\ \E k \in 1..Len(db) : db[k].processed /\ ~db[k].passed_qc
    /\ \E k \in 1..Len(db) : db[k].pdb_blob = None

\* the score the claim gives a candidate: the similarity of the rmsd over the
\* first min(50, len, len) atoms (the sentinel, of similarity 0, when that is
\* none), plus the similarity of the two full angle lists, each weighted 0.5
C5_Claimed(q, c) ==
    LET w == Min(WindowCap, Min(Len(q), Len(c)))
        r == Similarity(rmsd(SubSeq(q, 1, w), SubSeq(c, 1, w)))
        m == ramachandran_score(ramachandran(q), ramachandran(c))
    IN  IF r = NaN \/ m = NaN THEN NaN ELSE r + m

C5_ClaimedOf ==
    [q \in Queries, b \in Ids |-> C5_Claimed(DecodedQuery[q], DecodedBlob[b])]

\* C5 (as claimed): every computed score is 0.5 * rmsd similarity over the
\* first min(50, len(query), len(candidate)) atoms + 0.5 * Ramachandran
\* similarity of the full angle lists, and lies in [0, 1] (never a value
\* without an order).
C5_Score ==
    pc \in {"m_par", "m_ret"} =>
        \A k \in 1..Len(slots) :
            slots[k] # None =>
                /\ slots[k][1].score = C5_ClaimedOf[query, candidates[k].blob]
                /\ slots[k][1].score \notin {Infinity, NaN}
                /\ slots[k][1].score >= 0
                /\ slots[k][1].score <= 2 * Scale

Calls(u) == (IF u.h_out # "skip" THEN 1 ELSE 0) + (IF u.l_out # "skip" THEN 1 ELSE 0)

\* C6: a unit that has finished called the numbering collaborator for the
\* heavy (light) chain exactly when the item passes QC and that chain's
\* sequence is nonempty: no call for an item that fails QC, at most two.
C6_NumberingIffPass ==
    \A i \in 1..Len(unit) :
        unit[i].st = "done" =>
            /\ (unit[i].h_out # "skip") <=> (TaskPasses(tasks[i]) /\ TaskHSeq(tasks[i]) # <<>>)
            /\ (unit[i].l_out # "skip") <=> (TaskPasses(tasks[i]) /\ TaskLSeq(tasks[i]) # <<>>)
            /\ (~TaskPasses(tasks[i]) => Calls(unit[i]) = 0)
            /\ Calls(unit[i]) <= 2

\* C6 witness: in one batch, an item that fails QC with a nonempty heavy
\* sequence finished with no call, an item that passes with two nonempty
\* sequences with two calls, and an item that passes with one with one call.
C6_Witness ==
    /\ \E i \in 1..Len(unit) :
          /\ unit[i].st = "done"
          /\ ~TaskPasses(tasks[i])
          /\ TaskHSeq(tasks[i]) # <<>>
          /\ Calls(unit[i]) = 0
    /\ \E i \in 1..Len(unit) :
          /\ unit[i].st = "done"
          /\ TaskPasses(tasks[i])
          /\ Calls(unit[i]) = 2
    /\ \E i \in 1..Len(unit) :
          /\ unit[i].st = "done"
          /\ TaskPasses(tasks[i])
          /\ TaskHSeq(tasks[i]) # <<>>
          /\ TaskLSeq(tasks[i]) = <<>>
          /\ Calls(unit[i]) = 1

\* C7: a failed numbering call leaves that chain's numbering empty and
\* nothing else: the other chain is still numbered, the unit still returns a
\* record with the item's sequences, report and pass flag, and when the call
\* returns Ok every item of the batch is stored with its record.
C7_NumberingFailureIsolated ==
    /\ \A i \in 1..Len(unit) :
          unit[i].st = "done" =>
              /\ unit[i].result # None
              /\ LET r == unit[i].result[1]
                     t == tasks[i]
                 IN  /\ r.id = t.id
                     /\ r.json.h_chain_seq = TaskHSeq(t)
                     /\ r.json.l_chain_seq = TaskLSeq(t)
                     /\ r.json.qc = BlobReport[t.blob]
                     /\ r.passed = TaskPasses(t)
                     /\ unit[i].h_out = "err" => r.json.h_numbering = <<>>
                     /\ unit[i].l_out = "err" => r.json.l_numbering = <<>>
                     /\ (unit[i].h_out = "err" /\ TaskLSeq(t) # <<>>) =>
                            /\ unit[i].l_out # "skip"
                            /\ unit[i].l_out = "ok" =>
                                  /\ r.json.l_numbering # <<>>
                                  /\ Len(r.json.l_numbering) = Len(TaskLSeq(t))
                     /\ (unit[i].l_out = "err" /\ unit[i].h_out = "ok") =>
                            /\ r.json.h_numbering # <<>>
                            /\ Len(r.json.h_numbering) = Len(TaskHSeq(t))
    /\ (pc = "p_ret" /\ ret = "ok") =>
          \A i \in 1..Len(tasks) :
              /\ HasRow(committed, tasks[i].id)
              /\ RowOf(committed, tasks[i].id).processed
              /\ RowOf(committed, tasks[i].id).json_blob = Some(unit[i].result[1].json)
              /\ RowOf(committed, tasks[i].id).passed_qc = TaskPasses(tasks[i])

\* C7 witness: process_all returned Ok for a batch of three or more items in
\* which the heavy chain's call of one item failed and its light chain's
\* call succeeded.
C7_Witness ==
    /\ pc = "p_ret"
    /\ ret = "ok"
    /\ Len(tasks) >= 3
    /\ \E i \in 1..Len(unit) :
          /\ unit[i].h_out = "err"
          /\ unit[i].l_out = "ok"
          /\ RowOf(committed, tasks[i].id).json_blob[1].h_numbering = <<>>
          /\ RowOf(committed, tasks[i].id).json_blob[1].l_numbering # <<>>

\* C8: during one call of process_all storage is read once, before any unit
\* starts, and written in one transaction begun after every unit has
\* finished; no storage call is made while a unit is running.
C8_StorageOutsideParallelPhase ==
    /\ ~hist.overlap
    /\ hist.reads <= 1
    /\ hist.begins <= 1
    /\ hist.commits <= 1
    /\ (\E i \in 1..Len(unit) : unit[i].st # "todo") => hist.reads = 1
    /\ (\E i \in 1..Len(unit) : unit[i].st # "done") =>
          hist.begins = 0 /\ hist.updates = 0 /\ hist.commits = 0
    /\ pc = "p_write" => (txnOpen /\ hist.begins = 1 /\ hist.commits = 0)
    /\ hist.updates > 0 => hist.begins = 1
    /\ db # committed => txnOpen
    /\ (pc = "p_ret" /\ ret = "ok" /\ tasks # <<>>) =>
          /\ hist.reads = 1
          /\ hist.begins = 1
          /\ hist.updates = Len(tasks)
          /\ hist.commits = 1

\* C8 witness: a call over two or more items has returned Ok after one read,
\* one BEGIN, one UPDATE per item and one COMMIT.
C8_Witness ==
    /\ pc = "p_ret"
    /\ ret = "ok"
    /\ Len(tasks) >= 2
    /\ hist = [reads |-> 1, begins |-> 1, updates |-> Len(tasks), commits |-> 1,
               overlap |-> FALSE]

TaskCommitted(t) ==
    /\ HasRow(committed, t.id)
    /\ RowOf(committed, t.id).processed

\* C9 (as claimed): when process_all returns, either it returned Ok and every
\* item of the batch is committed, or it returned an error, no item of the
\* batch is committed and the connection has no transaction open.
C9_AtomicWrite ==
    pc = "p_ret" =>
        \/ /\ ret = "ok"
           /\ \A i \in 1..Len(tasks) : TaskCommitted(tasks[i])
        \/ /\ ret = "err"
           /\ \A i \in 1..Len(tasks) : ~TaskCommitted(tasks[i])
           /\ ~txnOpen

\* the number of file-adjacent residue pairs of a chain whose sequence numbers
\* differ by more than 1
C10_ClaimedGapsIn(residues) ==
    Cardinality({i \in 1..(Len(residues) - 1) :
        Abs(residues[i + 1][1].res_seq - residues[i][1].res_seq) > 1})

C10_ClaimedGaps(atoms) ==
    SumOver(ChainIds(atoms),
            [c \in ChainIds(atoms) |->
                C10_ClaimedGapsIn(ValidateResidues(ChainAtoms(atoms, c)))])

\* C10 (as claimed): validate sets numbering_gaps to the number of
\* file-adjacent residue pairs within a chain whose sequence numbers differ
\* by more than 1 in absolute value, whether or not the first residue has a C
\* and the second an N.
C10_NumberingGapsCounted ==
    fout # None => fout[1].numbering_gaps = C10_ClaimedGaps(fin)

\* C11: is_pass of a report is true exactly when geometric_gaps = 0 and
\* missing_backbone_residues < 5, whatever numbering_gaps is; and the pass
\* flag process_all stores for an item is that predicate of the item's report,
\* the report being validate of the item's decoded content.
C11_PassPredicate ==
    fout # None =>
        /\ fin[1] = "report" =>
              fout[1] = (fin[2].geometric_gaps = 0
                           /\ fin[2].missing_backbone_residues < MaxMissingBackbone)
        /\ fin[1] = "item" =>
              LET qc == fout[1].json_blob[1].qc
              IN  /\ fout[1].processed
                  /\ qc = validate(FromStr(BlobText(fin[2])))
                  /\ fout[1].passed_qc = (qc.geometric_gaps = 0
                         /\ qc.missing_backbone_residues < MaxMissingBackbone)

\* C11 witness: a report with numbering gaps, no geometric gap and four
\* residues missing backbone atoms passes.
C11_Witness ==
    /\ fin[1] = "report"
    /\ fin[2].numbering_gaps > 0
    /\ fin[2].geometric_gaps = 0
    /\ fin[2].missing_backbone_residues = MaxMissingBackbone - 1
    /\ fout = Some(TRUE)

\* the residues of a structure as validate groups them, over all chains
C12_Residues(atoms) ==
    UNION {{<<c, k>> : k \in 1..Len(ValidateResidues(ChainAtoms(atoms, c)))} :
              c \in ChainIds(atoms)}

\* the backbone atom names residue k of chain c lacks
C12_Lacks(atoms, ck) ==
    {"N", "CA", "C"} \ {a.name : a \in SeqRange(ValidateResidues(ChainAtoms(atoms, ck[1]))[ck[2]])}

\* C12: missing_backbone_residues is the number of residues, over all chains,
\* that lack at least one of N, CA, C, each counted once; when that is one
\* residue lacking only its CA and no bond is broken, the count is 1 and the
\* report passes QC.
C12_MissingBackboneCounted ==
    fout # None =>
        LET lacking == {ck \in C12_Residues(fin) : C12_Lacks(fin, ck) # {}}
        IN  /\ fout[1].missing_backbone_residues = Cardinality(lacking)
            /\ (/\ Cardinality(lacking) = 1
                /\ \A ck \in lacking : C12_Lacks(fin, ck) = {"CA"}
                /\ fout[1].geometric_gaps = 0)
                  => (fout[1].missing_backbone_residues = 1 /\ is_pass(fout[1]))

\* C12 witness: two residues, one lacking N and C, the other lacking only
\* its CA; the count is 2.
C12_Witness ==
    /\ fout # None
    /\ \E a, b \in C12_Residues(fin) :
          /\ C12_Lacks(fin, a) = {"N", "C"}
          /\ C12_Lacks(fin, b) = {"CA"}
    /\ fout[1].missing_backbone_residues = 2

\* every residue has N, CA and C; consecutive residues of a chain are numbered
\* one apart; every C(i) to N(i+1) distance within a chain is at most 2.5
C13_Clean(atoms) ==
    /\ \A ck \in C12_Residues(atoms) : C12_Lacks(atoms, ck) = {}
    /\ \A c \in ChainIds(atoms) :
          LET rs == ValidateResidues(ChainAtoms(atoms, c))
          IN  \A i \in 1..(Len(rs) - 1) :
                /\ rs[i + 1][1].res_seq - rs[i][1].res_seq = 1
                /\ LET d2 == DistSq(FindAtom(rs[i], "C").pos, FindAtom(rs[i + 1], "N").pos)
                   IN  d2 # NaN /\ 4 * d2 <= 25

C13_TwoChains ==
    /\ fout # None
    /\ C13_Clean(fin)
    /\ Cardinality(ChainIds(fin)) = 2

\* the number of residues of chain c, a residue being a run of one key
C14_ChainLen(atoms, c) == Len(ValidateResidues(ChainAtoms(atoms, c)))

\* the most entries the claim allows: the internal residues of every chain
C14_MaxEntries(atoms) ==
    SumOver(ChainIds(atoms),
            [c \in ChainIds(atoms) |->
                IF C14_ChainLen(atoms, c) > 2 THEN C14_ChainLen(atoms, c) - 2 ELSE 0])

\* C14 (as claimed): ramachandran treats each chain separately, so that the
\* first and last residue of every chain give no entry and the output has at
\* most the sum over the chains of max(0, r_c - 2) entries.
C14_PerChain ==
    fout # None => Len(fout[1]) <= C14_MaxEntries(fin)

\* the number of distinct (res_seq, i_code) keys of a structure
C15_Keys(atoms) == Cardinality({ResKey(atoms[k]) : k \in 1..Len(atoms)})

\* C15 (as claimed): on a residue-contiguous structure of the single chain
\* "A", validate, ramachandran and get_sequence all group the atoms by the
\* key (res_seq, i_code) and so form the same number of residues, one per key.
C15_SameResidueKey ==
    (fout # None /\ ChainIds(fin) = {"A"}) =>
        /\ fout[1].validate = C15_Keys(fin)
        /\ fout[1].get_sequence = C15_Keys(fin)
        /\ fout[1].ramachandran = C15_Keys(fin)

\* the square root of the mean squared distance of the index-paired atoms of
\* two lists of one length, in units of 1/Scale; NaN when a distance is NaN
C16_RootMeanSquare(a, b) ==
    LET d2 == [i \in 1..Len(a) |-> DistSq(a[i].pos, b[i].pos)]
    IN  IF NaN \in SeqRange(d2) THEN NaN
        ELSE Isqrt((SumSeq(d2) * Scale * Scale) \div Len(a))

\* C16 (as claimed): rmsd returns the sentinel +infinity when the lists
\* differ in length or one is empty, 0 for any nonempty list compared with
\* itself, and otherwise the root of the mean squared distance of the
\* index-paired atoms (2 for one atom at the origin against one at (2,0,0)).
C16_Rmsd ==
    fout # None =>
        LET a == fin[1]
            b == fin[2]
        IN  /\ (Len(a) # Len(b) \/ a = <<>> \/ b = <<>>) => fout[1] = Infinity
            /\ (a # <<>> /\ a = b) => fout[1] = 0
            /\ (Len(a) = Len(b) /\ a # <<>> /\ a # b) =>
                  fout[1] = C16_RootMeanSquare(a, b)
            /\ (a = <<MockAtom(<<0, 0, 0>>)>> /\ b = <<MockAtom(<<2, 0, 0>>)>>) =>
                  fout[1] = 2 * Scale

\* C17 (as claimed): ramachandran_score is exactly 1 for a nonempty list
\* compared with itself, 0 when either list is empty, and in (0, 1] for any
\* two nonempty lists.
C17_RamaScoreRange ==
    fout # None =>
        LET a == fin[1]
            b == fin[2]
        IN  /\ (a = <<>> \/ b = <<>>) => fout[1] = 0
            /\ (a # <<>> /\ a = b) => fout[1] = Scale
            /\ (a # <<>> /\ b # <<>>) =>
                  (fout[1] # NaN /\ fout[1] > 0 /\ fout[1] <= Scale)

\* the first n entries of a list
C18_Prefix(a, n) == SubSeq(a, 1, n)

\* C18: for two nonempty lists the score is the score of their prefixes of
\* the shorter length: entries beyond that length have no influence and the
\* mean is taken over that length.
C18_Truncation ==
    (fout # None /\ fin[1] # <<>> /\ fin[2] # <<>>) =>
        LET m == Min(Len(fin[1]), Len(fin[2]))
        IN  /\ fout[1] = ramachandran_score(C18_Prefix(fin[1], m), C18_Prefix(fin[2], m))
            /\ \A a, b \in AngleLists :
                  (/\ Len(a) >= m /\ Len(b) >= m /\ m = Min(Len(a), Len(b))
                   /\ C18_Prefix(a, m) = C18_Prefix(fin[1], m)
                   /\ C18_Prefix(b, m) = C18_Prefix(fin[2], m))
                     => ramachandran_score(a, b) = fout[1]

\* C18 witness: lists of lengths 1 and 2 whose first entries differ; the
\* score is that of the first entries alone, a number below 1.
C18_Witness ==
    /\ fout # None
    /\ Len(fin[1]) = 1
    /\ Len(fin[2]) = 2
    /\ fin[2][2] # fin[1][1]
    /\ fout[1] # NaN
    /\ fout[1] > 0
    /\ fout[1] < Scale

\* a quartet whose two planes are defined: neither the first three nor the
\* last three points are collinear
C19_NonDegenerate(q) ==
    /\ Cross(PointSub(q[2], q[1]), PointSub(q[3], q[2])) # <<0, 0, 0>>
    /\ Cross(PointSub(q[3], q[2]), PointSub(q[4], q[3])) # <<0, 0, 0>>

\* C19 (as claimed): for a non-degenerate quartet torsion_angle lies in the
\* half-open interval (-pi, pi], so that a planar trans quartet gives +pi and
\* never -pi; for (1,0,0), (0,0,0), (0,1,0), (0,1,1) the magnitude is pi/2.
C19_TorsionRange ==
    (fout # None /\ C19_NonDegenerate(fin)) =>
        /\ fout[1] > -PI
        /\ fout[1] <= PI
        /\ fin = <<(<<1, 0, 0>>), (<<0, 0, 0>>), (<<0, 1, 0>>), (<<0, 1, 1>>)>>
              => Abs(fout[1]) = PI \div 2

\* the table the claim describes, filled row by row: a boundary gap run of
\* length k costs -11 - (k - 1), a match +4, a mismatch -1, any other gap
\* position -1
C20_Table(s1, s2) ==
    LET t[i \in 0..Len(s1), j \in 0..Len(s2)] ==
            IF i = 0 /\ j = 0 THEN 0
            ELSE IF i = 0 THEN -11 - (j - 1)
            ELSE IF j = 0 THEN -11 - (i - 1)
            ELSE LET d == t[i - 1, j - 1] + (IF s1[i] = s2[j] THEN 4 ELSE -1)
                     u == t[i - 1, j] - 1
                     l == t[i, j - 1] - 1
                 IN  IF d >= u /\ d >= l THEN d ELSE IF u >= l THEN u ELSE l
    IN  t

\* C20: align returns the final cell of that table; so align(s, s) is
\* 4 * len(s) (16 for four residues) and two different single characters
\* align to -1.
C20_Align ==
    fout # None =>
        /\ fout[1] = C20_Table(fin[1], fin[2])[Len(fin[1]), Len(fin[2])]
        /\ fin[1] = fin[2] => fout[1] = 4 * Len(fin[1])
        /\ (Len(fin[1]) = 1 /\ Len(fin[2]) = 1 /\ fin[1] # fin[2]) => fout[1] = -1

\* C20 witness: a four-residue sequence aligned with itself scores 16.
C20_Witness ==
    /\ fout = Some(16)
    /\ Len(fin[1]) = 4
    /\ fin[1] = fin[2]

\* the line is one the claim gives an Atom for: it starts with ATOM or
\* HETATM, is at least 54 characters long, and its serial, residue number, x, y
\* and z fields (columns 7-11, 23-26, 31-38, 39-46, 47-54) parse
C21_Decodes(line) ==
    /\ \/ SubSeq(line, 1, 4) = <<"A", "T", "O", "M">>
       \/ SubSeq(line, 1, 6) = <<"H", "E", "T", "A", "T", "M">>
    /\ Len(line) >= 54
    /\ parse_i32(trim(SubSeq(line, 7, 11))) # None
    /\ parse_i32(trim(SubSeq(line, 23, 26))) # None
    /\ parse_f64(trim(SubSeq(line, 31, 38))) # None
    /\ parse_f64(trim(SubSeq(line, 39, 46))) # None
    /\ parse_f64(trim(SubSeq(line, 47, 54))) # None

\* C21 (as claimed): from_str yields one Atom for every line that starts with
\* ATOM or HETATM, is at least 54 characters long and whose serial, residue
\* number and x, y, z fields parse, none for any other line, and the Atoms
\* are in the order of their lines.
C21_OneAtomPerLine ==
    (fout # None /\ fin[1] = "text") =>
        LET good == SelectSeq(fin[2], C21_Decodes)
        IN  /\ Len(fout[1]) = Len(good)
            /\ \A k \in 1..Len(good) :
                  fout[1][k].serial = parse_i32(trim(SubSeq(good[k], 7, 11)))[1]

\* the atoms of the chain that are the first of their residue (number and
\* insertion code), in file order
C22_Firsts(atoms, ch) ==
    SelectSeq([k \in 1..Len(atoms) |-> <<k, atoms[k]>>],
              LAMBDA e : /\ e[2].chain_id = ch
                         /\ \A j \in 1..(e[1] - 1) :
                               ~(/\ atoms[j].chain_id = ch
                                 /\ atoms[j].res_seq = e[2].res_seq
                                 /\ atoms[j].i_code = e[2].i_code))

\* the one-letter code of the twenty standard residue names
C22_Code ==
    [rn \in {"ALA", "CYS", "ASP", "GLU", "PHE", "GLY", "HIS", "ILE", "LYS", "LEU", "MET",
             "ASN", "PRO", "GLN", "ARG", "SER", "THR", "VAL", "TRP", "TYR"} |->
        CASE rn = "ALA" -> "A" [] rn = "CYS" -> "C" [] rn = "ASP" -> "D" [] rn = "GLU" -> "E"
          [] rn = "PHE" -> "F" [] rn = "GLY" -> "G" [] rn = "HIS" -> "H" [] rn = "ILE" -> "I"
          [] rn = "LYS" -> "K" [] rn = "LEU" -> "L" [] rn = "MET" -> "M" [] rn = "ASN" -> "N"
          [] rn = "PRO" -> "P" [] rn = "GLN" -> "Q" [] rn = "ARG" -> "R" [] rn = "SER" -> "S"
          [] rn = "THR" -> "T" [] rn = "VAL" -> "V" [] rn = "TRP" -> "W" [] rn = "TYR" -> "Y"]

\* C22: get_sequence(chain) has one character per residue of the chain, in
\* the order the residues first occur, the one-letter code of a standard
\* residue name and "X" for any other; for a chain without atoms it is empty.
C22_Sequence ==
    (fout # None /\ fin[1] = "chain") =>
        LET firsts == C22_Firsts(fin[2][1], fin[2][2])
        IN  /\ Len(fout[1]) = Len(firsts)
            /\ \A k \in 1..Len(firsts) :
                  fout[1][k] = IF firsts[k][2].res_name \in DOMAIN C22_Code
                               THEN C22_Code[firsts[k][2].res_name] ELSE "X"

\* C22 witness: a chain whose first residue occurs again after its second
\* (and after an atom of another chain), one name standard and one not.
C22_Witness ==
    /\ fout # None
    /\ fin[1] = "chain"
    /\ Len(fout[1]) = 2
    /\ Len(fin[2][1]) = 3
    /\ "X" \in SeqRange(fout[1])
    /\ "A" \in SeqRange(fout[1])
    /\ fin[2][1][1].chain_id = fin[2][2]
    /\ fin[2][1][3].chain_id = fin[2][2]
    /\ ResKey(fin[2][1][3]) = ResKey(fin[2][1][1])

\* the internal residues (positions 2..n-1 of the residue list) for which
\* C of the residue before, N, CA and C of the residue itself and N of the
\* residue after are all present
C23_Complete(residues) ==
    LET has(r, nm) == \E k \in 1..Len(residues[r]) : residues[r][k].name = nm
    IN  {i \in 2..(Len(residues) - 1) :
            has(i - 1, "C") /\ has(i, "N") /\ has(i, "CA") /\ has(i, "C") /\ has(i + 1, "N")}

\* C23: ramachandran emits exactly one entry for every internal residue that
\* has the five atoms and none for an internal residue lacking one of them
\* (nothing fails), the entries being in residue order.
C23_SkipIncomplete ==
    fout # None =>
        LET residues == RamaResidues(fin)
            complete == C23_Complete(residues)
            nth(k) == CHOOSE i \in complete : Cardinality({j \in complete : j < i}) = k - 1
        IN  /\ Len(fout[1]) = Cardinality(complete)
            /\ \A k \in 1..Len(fout[1]) : fout[1][k] = RamaAngles(residues, nth(k))

\* C23 witness: an internal residue lacking an atom is passed over and a
\* later internal residue gets its entry.
C23_Witness ==
    /\ fout # None
    /\ fout[1] # <<>>
    /\ LET residues == RamaResidues(fin)
       IN  \E i \in 2..(Len(residues) - 1) :
              /\ i \notin C23_Complete(residues)
              /\ \E j \in C23_Complete(residues) : j > i

\* a candidate both of whose metrics are degenerate: its content has no atom
C24_NoAtoms(c) == \A k \in 1..Len(c.blob) : ~FromLineOk(c.blob[k])

\* C24: every candidate yields one MatchResult, whatever its content; one
\* whose content decodes to no atoms scores 0; and the score of every
\* candidate is the score it has when it is the only candidate.
C24_DegenerateIsolated ==
    fout # None =>
        /\ Len(fout[1]) = Len(fin[2])
        /\ \A k \in 1..Len(fin[2]) :
              /\ fout[1][k].pdb_id = fin[2][k].id
              /\ C24_NoAtoms(fin[2][k]) => fout[1][k].score = 0
              /\ fout[1][k].score =
                    MatchScore(DecodedQuery[fin[1]], FromStr(fin[2][k].blob))

\* C24 witness: a candidate without atoms and one with too few residues for
\* an angle pair are scored between and before a candidate of positive score.
C24_Witness ==
    /\ fout # None
    /\ Len(fout[1]) = 3
    /\ C24_NoAtoms(fin[2][2])
    /\ fout[1][2].score = 0
    /\ ramachandran(FromStr(fin[2][1].blob)) = <<>>
    /\ ~C24_NoAtoms(fin[2][1])
    /\ fout[1][3].score > 0

\* the ids the claim has fetched: the records of the summary and of the
\* table whose row held no content before the run
C27_Wanted ==
    ({r.pdb : r \in SeqRange(fin[2])} \cup {r.pdb_id : r \in SeqRange(fin[1])})
      \ {r.pdb_id : r \in {x \in SeqRange(fin[1]) : x.pdb_blob # None}}

\* the first of the first three requests for id that succeeds, 0 when none does
C27_FirstOk(id) ==
    IF fin[3][id][1] THEN 1 ELSE IF fin[3][id][2] THEN 2 ELSE IF fin[3][id][3] THEN 3 ELSE 0

\* C27: populate_db fetches each id without stored content at most 3 times
\* and stops at the first success; an id whose 3 attempts fail keeps null
\* content, the run completes and the other ids get their content; such an
\* id is selected neither by process_all nor by find_matches, and is
\* selected for download by the next populate_db run.
C27_BoundedFetch ==
    fout # None =>
        LET rows == fout[1].rows
            calls == fout[1].calls
        IN  /\ DOMAIN calls = C27_Wanted
            /\ \A id \in C27_Wanted :
                  /\ calls[id] <= 3
                  /\ C27_FirstOk(id) # 0 =>
                        /\ calls[id] = C27_FirstOk(id)
                        /\ RowOf(rows, id).pdb_blob = Some(id)
                  /\ C27_FirstOk(id) = 0 =>
                        /\ calls[id] = 3
                        /\ RowOf(rows, id).pdb_blob = None
                        /\ \A t \in SeqRange(FetchUnprocessed(rows)) : t.id # id
                        /\ \A c \in SeqRange(FetchCandidates(rows)) : c.id # id
                        /\ id \in SeqRange(ToDownload(InsertAll(rows, fin[2])))

\* C27 witness: one id fails three times (a fourth request would have
\* succeeded), another succeeds at its second attempt, in the same run.
C27_Witness ==
    /\ fout # None
    /\ \E a, b \in DOMAIN fout[1].calls :
          /\ fin[3][a] = <<FALSE, FALSE, FALSE, TRUE>>
          /\ RowOf(fout[1].rows, a).pdb_blob = None
          /\ fout[1].calls[b] = 2
          /\ RowOf(fout[1].rows, b).pdb_blob # None

\* every record of the table with passed_qc set is processed, has content and
\* a stored missing_backbone count below 5
C25_PassedRows(rows) ==
    \A k \in 1..Len(rows) :
        rows[k].passed_qc =>
            /\ rows[k].processed
            /\ rows[k].pdb_blob # None
            /\ rows[k].missing_backbone < 5

\* C25: in every storage state (as committed, and as the connection sees
\* it) a record with passed_qc = TRUE is processed, has content and a
\* missing_backbone count below 5; and no step takes a committed record from
\* processed = TRUE to processed = FALSE.
C25_PassedImpliesProcessed ==
    /\ [](C25_PassedRows(committed) /\ C25_PassedRows(db))
    /\ [][\A k \in 1..Len(committed) :
             committed[k].processed =>
                 /\ k <= Len(committed')
                 /\ committed'[k].pdb_id = committed[k].pdb_id
                 /\ committed'[k].processed]_vars

\* C25 witness: storage holds a record that passed and a processed record
\* that did not, and another operation has run since they were written.
C25_Witness ==
    /\ pc = "pop_ret"
    /\ \E k \in 1..Len(committed) : committed[k].passed_qc
    /\ \E k \in 1..Len(committed) : committed[k].processed /\ ~committed[k].passed_qc
    /\ \E k \in 1..Len(committed) : committed[k].pdb_blob = None

\* the ids of the records process_all has to process: not processed, with content
C26_Pending(rows) ==
    {rows[k].pdb_id : k \in {j \in 1..Len(rows) : ~rows[j].processed /\ rows[j].pdb_blob # None}}

\* C26: process_all takes exactly the records that are unprocessed and have
\* content, each once; when it returns Ok each of them has been written once
\* and is processed, whatever its QC outcome; a call that finds no such
\* record returns without a write or a numbering call and leaves storage as
\* it was.
C26_ProcessOnce ==
    /\ [](pc \in {"p_par", "p_write", "p_ret"} =>
            /\ \A i, j \in 1..Len(tasks) : i # j => tasks[i].id # tasks[j].id
            /\ {tasks[i].id : i \in 1..Len(tasks)} \subseteq
                  {committed[k].pdb_id : k \in {j \in 1..Len(committed) :
                                                   committed[j].pdb_blob # None}}
            /\ pc = "p_par" => {tasks[i].id : i \in 1..Len(tasks)} = C26_Pending(db)
            /\ hist.updates <= Len(tasks)
            /\ (pc = "p_ret" /\ ret = "ok") =>
                  /\ hist.updates = Len(tasks)
                  /\ C26_Pending(committed) = {}
                  /\ \A i \in 1..Len(tasks) : RowOf(committed, tasks[i].id).processed)
    /\ [][(pc = "idle" /\ pc' # "idle" /\ pc' \in {"p_par", "p_write", "p_ret"}
             /\ C26_Pending(db) = {}) =>
               /\ pc' = "p_ret"
               /\ ret' = "ok"
               /\ tasks' = <<>>
               /\ unit' = <<>>
               /\ hist'.updates = 0
               /\ hist'.begins = 0
               /\ db' = db
               /\ committed' = committed]_vars

\* C26 witness: a call returns Ok having found nothing to process, while
\* storage holds processed records, one of which failed QC.
C26_Witness ==
    /\ pc = "p_ret"
    /\ ret = "ok"
    /\ tasks = <<>>
    /\ \E k \in 1..Len(committed) : committed[k].processed /\ ~committed[k].passed_qc
    /\ \E k \in 1..Len(committed) : committed[k].processed /\ committed[k].passed_qc

\* the operations the claim has a run call, in order: the run started with
\* the flag force and the table start
C28_Expected(force, start) ==
    IF force \/ ~\E k \in 1..Len(start) : start[k].processed
    THEN <<"populate_db", "process_all", "find_matches">>
    ELSE <<"find_matches">>

\* C28: a run calls populate_db, then process_all, then find_matches when
\* storage holds no processed record or the flag is set, and find_matches
\* alone otherwise; a call is made only after the calls before it returned
\* Ok; a run that goes straight to matching leaves storage as it found it.
C28_InitThenMatch ==
    fout # None =>
        LET r == fout[1]
            expected == C28_Expected(fin[1], r.start)
            called == [k \in 1..Len(r.calls) |-> r.calls[k][1]]
                        \o (IF r.stage = "exit" THEN <<>> ELSE <<r.stage>>)
        IN  /\ Len(called) <= Len(expected)
            /\ called = SubSeq(expected, 1, Len(called))
            /\ \A k \in 1..(Len(r.calls) - 1) : r.calls[k][2] = "ok"
            /\ r.stage # "exit" => \A k \in 1..Len(r.calls) : r.calls[k][2] = "ok"
            /\ (r.stage = "exit" /\ Len(called) < Len(expected)) =>
                  r.calls[Len(r.calls)][2] = "err"
            /\ pc = "pop_ret" => r.stage = "populate_db"
            /\ pc \in {"p_par", "p_write", "p_ret"} => r.stage = "process_all"
            /\ pc \in {"m_par", "m_ret"} => r.stage = "find_matches"
            /\ Len(expected) = 1 => (db = r.start /\ committed = r.start)

\* C28 witness: a run without the flag on a table that holds a processed
\* record, and one without content, has gone straight to matching and the
\* list has been returned.
C28_Witness ==
    /\ fout # None
    /\ fin = <<FALSE>>
    /\ fout[1].calls = <<>>
    /\ pc = "m_ret"
    /\ ret = "ok"
    /\ \E k \in 1..Len(fout[1].start) : fout[1].start[k].processed
    /\ \E k \in 1..Len(fout[1].start) : fout[1].start[k].pdb_blob = None

====
